---- MODULE Spec2Model ----
(***************************************************************************)
(* A model of the lpc55-usbhs driver: the endpoint memory bump allocator,  *)
(* the endpoint buffer handle, and the UsbHSBus bus controller             *)
(* (alloc_ep, enable, reset, poll, read, write, set_stalled, is_stalled,    *)
(* suspend, resume) together with the device registers and the endpoint    *)
(* descriptors the bus controller reads and writes.                        *)
(***************************************************************************)
EXTENDS Integers, Sequences, FiniteSets, TLC

(***************************************************************************)
(* Program constants (src/src/hal/constants.rs, endpoint_memory.rs).       *)
(***************************************************************************)
NUM_ENDPOINTS == 6
BYTES_PER_EP_REGISTER == 16
\* 0x4010_0000
EP_MEM_ADDR == 1074790400
\* 0x4000
EP_MEM_SIZE == 16384
EP_REGISTERS_SIZE == NUM_ENDPOINTS * BYTES_PER_EP_REGISTER
ALIGN == 64
\* max_packet_size is a u16: size += 1 wraps at 2^16 in a release build
U16_MOD == 65536

(***************************************************************************)
(* Bounds of the model.                                                    *)
(***************************************************************************)
\* number of allocate_buffer calls made on one allocator
MaxAllocs == 4

\* sizes handed to allocate_buffer: by its callers a u16 (+1 for endpoint 0)
\* or the constant 8, so at most 65536.  With the bump pointer at most
\* EP_MEM_SIZE every intermediate value below stays under 2^31, so the 32-bit
\* usize arithmetic of the target never wraps and is modelled exactly.
AllocSizes == {0, 8, 16, 64, 100, 8000, 16256, 16288, 65536}

\* largest capacity of the buffer handle that is read and written
MaxCap == 2
\* longest source or destination slice handed to write and read
MaxLen == 3
\* values of a byte (UsbAccessType = u8) that are told apart
Bytes == {0, 1, 255}
\* the cells of endpoint SRAM around the buffer handle: room for the
\* largest handle at either offset and a cell past it
SramCells == 0..(MaxCap + 1)

\* number of alloc_ep calls with arguments of every kind
MaxEpAllocs == 2
\* number of alloc_ep calls when mostly unaddressed requests are made, and
\* how many of the first calls may name a fixed address
MaxScanAllocs == 6
MaxEarlyFixed == 1
\* on the running bus: alloc_ep calls before enable, UsbBus calls in all,
\* and hardware events
MaxBusAllocs == 2
MaxBusCalls == 6
MaxHwEvents == 3

\* on the bus on which every operation is called: alloc_ep calls before
\* enable, UsbBus calls in all, and hardware events counted
MaxOpsAllocs == 2
MaxOpsCalls == 6
MaxOpsHw == 2

\* arguments of alloc_ep that are told apart
Directions == {"Out", "In"}
EpTypes == {"Control", "Bulk"}
\* 16255: endpoint 0's OUT buffer of 16256 bytes fills the SRAM to its last
\* byte, so that the SETUP buffer no longer fits
PacketSizes == {8, 64, 16255}
\* ep_addr: None, or Some(address) with this index
NoAddr == -1
FixedIndices == 0..(NUM_ENDPOINTS - 1)

VARIABLES
    next_free_offset,   \* EndpointMemoryAllocator.next_free_offset
    alloc_log,          \* the allocate_buffer calls so far: size asked, result
    sram,               \* the endpoint SRAM cells (VolatileCell<u8>)
    ep_buf,             \* the EndpointBuffer handle that is read and written
    buf_op,             \* the last read or write: its slice before and after
    endpoints,          \* UsbHSBus.endpoints
    call,               \* the last UsbBus operation called and its arguments
    res,                \* what that operation returned
    ncalls,             \* the number of UsbBus operations called so far
    max_endpoint,       \* UsbHSBus.max_endpoint
    devcmdstat,         \* the DEVCMDSTAT register, by field
    intstat,            \* the INTSTAT register: the numbers of the bits set
    ep_in_active,       \* endpoints whose IN descriptor has the Active bit set
    ep_out_active,      \* endpoints whose OUT descriptor has the Active bit set
    nhw,                \* the number of hardware events so far
    hw_since_call,      \* a hardware event happened after the last call
    ep_in_stalled,      \* endpoints whose IN descriptor has the Stall bit set
    ep_out_stalled,     \* endpoints whose OUT descriptor has the Stall bit set
    armed,              \* the descriptor entries programmed by reset_*_buf
    stall_wait,         \* the set_stalled call that is busy-waiting, if any
    primask,            \* PRIMASK: "Active" while interrupts are enabled
    saved,              \* the primask each running interrupt::free read on entry
    script,             \* the steps the main-context operation has still to do
    touched,            \* that operation has made its first access
    cs_op,              \* the name of that operation
    ncs,                \* the number of main-context operations called
    nisr                \* the number of interrupt-context polls so far

allocVars == <<next_free_offset, alloc_log>>
bufVars == <<sram, ep_buf, buf_op>>
hwVars == <<max_endpoint, devcmdstat, intstat, ep_in_active, ep_out_active, nhw,
            hw_since_call>>
busVars == <<endpoints, call, res, ncalls>>
epVars == <<ep_in_stalled, ep_out_stalled, armed, stall_wait>>
csVars == <<primask, saved, script, touched, cs_op, ncs, nisr>>
vars == <<next_free_offset, alloc_log, sram, ep_buf, buf_op,
          endpoints, call, res, ncalls,
          max_endpoint, devcmdstat, intstat, ep_in_active, ep_out_active, nhw,
          hw_since_call, ep_in_stalled, ep_out_stalled, armed, stall_wait,
          primask, saved, script, touched, cs_op, ncs, nisr>>

(***************************************************************************)
(* EndpointBuffer: a view of `size` cells of the endpoint SRAM at `offset`. *)
(* An unbound Option<EndpointBuffer> is NoBuf.                              *)
(***************************************************************************)
EndpointBuffer_new(offset, size) == [bound |-> TRUE, offset |-> offset, size |-> size]

NoBuf == [bound |-> FALSE, offset |-> 0, size |-> 0]

\* x & !m for m = 2^k - 1
AndNot(x, m) == x - (x % (m + 1))

(***************************************************************************)
(* EndpointMemoryAllocator::allocate_buffer, as a function of the bump     *)
(* pointer: the result and the new bump pointer.                           *)
(***************************************************************************)
allocate_buffer_bump_align(nfo, size) ==
    LET next_free_addr == EP_MEM_ADDR + nfo
        addr == AndNot(next_free_addr + ALIGN - 1, ALIGN - 1)
        offset == addr - EP_MEM_ADDR
    IN  IF offset + size > EP_MEM_SIZE
        THEN [ok |-> FALSE, next_free_offset |-> nfo, buf |-> NoBuf]
        ELSE [ok |-> TRUE, next_free_offset |-> offset + ALIGN,
              buf |-> EndpointBuffer_new(offset, size)]

allocate_buffer_commit_first(nfo, size) ==
    LET next_free_addr == EP_MEM_ADDR + nfo
        addr == AndNot(next_free_addr + ALIGN - 1, ALIGN - 1)
        offset == addr - EP_MEM_ADDR
    IN  IF offset + size > EP_MEM_SIZE
        THEN [ok |-> FALSE, next_free_offset |-> offset, buf |-> NoBuf]
        ELSE [ok |-> TRUE, next_free_offset |-> offset + size,
              buf |-> EndpointBuffer_new(offset, size)]

allocate_buffer_noalign(nfo, size) ==
    LET offset == nfo
    IN  IF offset + size > EP_MEM_SIZE
        THEN [ok |-> FALSE, next_free_offset |-> nfo, buf |-> NoBuf]
        ELSE [ok |-> TRUE, next_free_offset |-> offset + size,
              buf |-> EndpointBuffer_new(offset, size)]

allocate_buffer(nfo, size) ==
    LET next_free_addr == EP_MEM_ADDR + nfo
        addr == AndNot(next_free_addr + ALIGN - 1, ALIGN - 1)
        offset == addr - EP_MEM_ADDR
    IN  IF offset + size > EP_MEM_SIZE
        THEN [ok |-> FALSE, next_free_offset |-> nfo, buf |-> NoBuf]
        ELSE [ok |-> TRUE, next_free_offset |-> offset + size,
              buf |-> EndpointBuffer_new(offset, size)]

(***************************************************************************)
(* The allocator on its own: a fresh allocator and a sequence of           *)
(* allocate_buffer calls.                                                  *)
(***************************************************************************)
AllocatorNew == EP_REGISTERS_SIZE

Min(a, b) == IF a <= b THEN a ELSE b

(***************************************************************************)
(* EndpointBuffer::read: the destination slice after the call.             *)
(***************************************************************************)
EndpointBuffer_read(b, mem, buf) ==
    LET count == Min(Len(buf), b.size)
    IN  [i \in 1..Len(buf) |->
            IF i - 1 < count THEN mem[b.offset + (i - 1)] ELSE buf[i]]

(***************************************************************************)
(* EndpointBuffer::write: the SRAM after the call.                         *)
(***************************************************************************)
EndpointBuffer_write_count_len(b, mem, buf) ==
    LET count == Len(buf)
    IN  [a \in DOMAIN mem |->
            IF a >= b.offset /\ a - b.offset < count
            THEN buf[(a - b.offset) + 1] ELSE mem[a]]

EndpointBuffer_write(b, mem, buf) ==
    LET count == Min(Len(buf), b.size)
    IN  [a \in DOMAIN mem |->
            IF a >= b.offset /\ a - b.offset < count
            THEN buf[(a - b.offset) + 1] ELSE mem[a]]

\* the idle values of the parts a specification does not exercise
IdleAllocator == next_free_offset = EP_REGISTERS_SIZE /\ alloc_log = <<>>
IdleBuffer ==
    /\ sram = [a \in SramCells |-> 0]
    /\ ep_buf = NoBuf
    /\ buf_op = [op |-> "new", arg |-> <<>>, out |-> <<>>]

(***************************************************************************)
(* Endpoint (hal/endpoint.rs): the type an endpoint was claimed for and    *)
(* its OUT, IN and SETUP buffer bindings.                                  *)
(***************************************************************************)
NoType == "None"

Endpoint_new(i) ==
    [index |-> i, ep_type |-> NoType,
     out_buf |-> NoBuf, in_buf |-> NoBuf, setup_buf |-> NoBuf]

set_ep_type(ep, t) == [ep EXCEPT !.ep_type = t]
is_out_buf_set(ep) == ep.out_buf.bound
is_in_buf_set(ep) == ep.in_buf.bound
set_out_buf(ep, b) == [ep EXCEPT !.out_buf = b]
set_in_buf(ep, b) == [ep EXCEPT !.in_buf = b]
set_setup_buf(ep, b) == [ep EXCEPT !.setup_buf = b]

\* UsbHSBus::new: every endpoint constructed, no type, no buffer
EndpointsNew == [i \in 0..(NUM_ENDPOINTS - 1) |-> Endpoint_new(i)]

(***************************************************************************)
(* Results of the UsbBus operations.                                       *)
(***************************************************************************)
Result(kind, index, dir) ==
    [kind |-> kind, index |-> index, dir |-> dir,
     ep_out |-> 0, ep_in_complete |-> 0, ep_setup |-> 0]
Ok(index, dir) == Result("Ok", index, dir)
Err(e) == Result(e, -1, "None")

NoCall == [op |-> "new", dir |-> "None", addr |-> NoAddr, ty |-> NoType, mps |-> 0]

(***************************************************************************)
(* UsbHSBus::alloc_ep: the loop over addr_range from `index` on.  The      *)
(* value is the endpoints, the allocator's bump pointer and the result.    *)
(***************************************************************************)
AllocOut(eps, nfo, result) ==
    [endpoints |-> eps, next_free_offset |-> nfo, res |-> result]

\* the body of the loop for one index whose type matches or was just claimed
alloc_ep_bind_no_zlp_byte(eps, nfo, index, ep_dir, max_packet_size) ==
    LET ep == eps[index] IN
    IF ep_dir = "Out" /\ ~is_out_buf_set(ep) THEN
        LET size == max_packet_size
            b == allocate_buffer(nfo, size)
            ep1 == set_out_buf(ep, b.buf)
        IN  IF ~b.ok THEN AllocOut(eps, nfo, Err("EndpointMemoryOverflow"))
            ELSE IF index = 0 THEN
                LET setup == allocate_buffer(b.next_free_offset, 8) IN
                IF ~setup.ok
                THEN AllocOut([eps EXCEPT ![index] = ep1], b.next_free_offset,
                              Err("EndpointMemoryOverflow"))
                ELSE AllocOut([eps EXCEPT ![index] = set_setup_buf(ep1, setup.buf)],
                              setup.next_free_offset, Ok(index, ep_dir))
            ELSE AllocOut([eps EXCEPT ![index] = ep1], b.next_free_offset,
                          Ok(index, ep_dir))
    ELSE IF ep_dir = "In" /\ ~is_in_buf_set(ep) THEN
        LET size == max_packet_size
            b == allocate_buffer(nfo, size)
        IN  IF ~b.ok THEN AllocOut(eps, nfo, Err("EndpointMemoryOverflow"))
            ELSE AllocOut([eps EXCEPT ![index] = set_in_buf(ep, b.buf)],
                          b.next_free_offset, Ok(index, ep_dir))
    ELSE AllocOut(eps, nfo, Err("continue"))

alloc_ep_bind_rebind(eps, nfo, index, ep_dir, max_packet_size) ==
    LET ep == eps[index] IN
    IF ep_dir = "Out" THEN
        LET size == IF index = 0 THEN (max_packet_size + 1) % U16_MOD
                    ELSE max_packet_size
            b == allocate_buffer(nfo, size)
            ep1 == set_out_buf(ep, b.buf)
        IN  IF ~b.ok THEN AllocOut(eps, nfo, Err("EndpointMemoryOverflow"))
            ELSE IF index = 0 THEN
                LET setup == allocate_buffer(b.next_free_offset, 8) IN
                IF ~setup.ok
                THEN AllocOut([eps EXCEPT ![index] = ep1], b.next_free_offset,
                              Err("EndpointMemoryOverflow"))
                ELSE AllocOut([eps EXCEPT ![index] = set_setup_buf(ep1, setup.buf)],
                              setup.next_free_offset, Ok(index, ep_dir))
            ELSE AllocOut([eps EXCEPT ![index] = ep1], b.next_free_offset,
                          Ok(index, ep_dir))
    ELSE
        LET size == max_packet_size
            b == allocate_buffer(nfo, size)
        IN  IF ~b.ok THEN AllocOut(eps, nfo, Err("EndpointMemoryOverflow"))
            ELSE AllocOut([eps EXCEPT ![index] = set_in_buf(ep, b.buf)],
                          b.next_free_offset, Ok(index, ep_dir))

alloc_ep_bind_rollback(eps, nfo, index, ep_dir, max_packet_size) ==
    LET ep == eps[index] IN
    IF ep_dir = "Out" /\ ~is_out_buf_set(ep) THEN
        LET size == IF index = 0 THEN (max_packet_size + 1) % U16_MOD
                    ELSE max_packet_size
            b == allocate_buffer(nfo, size)
            ep1 == set_out_buf(ep, b.buf)
        IN  IF ~b.ok THEN AllocOut(eps, nfo, Err("EndpointMemoryOverflow"))
            ELSE IF index = 0 THEN
                LET setup == allocate_buffer(b.next_free_offset, 8) IN
                IF ~setup.ok
                THEN AllocOut(eps, nfo, Err("EndpointMemoryOverflow"))
                ELSE AllocOut([eps EXCEPT ![index] = set_setup_buf(ep1, setup.buf)],
                              setup.next_free_offset, Ok(index, ep_dir))
            ELSE AllocOut([eps EXCEPT ![index] = ep1], b.next_free_offset,
                          Ok(index, ep_dir))
    ELSE IF ep_dir = "In" /\ ~is_in_buf_set(ep) THEN
        LET size == max_packet_size
            b == allocate_buffer(nfo, size)
        IN  IF ~b.ok THEN AllocOut(eps, nfo, Err("EndpointMemoryOverflow"))
            ELSE AllocOut([eps EXCEPT ![index] = set_in_buf(ep, b.buf)],
                          b.next_free_offset, Ok(index, ep_dir))
    ELSE AllocOut(eps, nfo, Err("continue"))

alloc_ep_bind(eps, nfo, index, ep_dir, max_packet_size) ==
    LET ep == eps[index] IN
    IF ep_dir = "Out" /\ ~is_out_buf_set(ep) THEN
        LET size == IF index = 0 THEN (max_packet_size + 1) % U16_MOD
                    ELSE max_packet_size
            b == allocate_buffer(nfo, size)
            ep1 == set_out_buf(ep, b.buf)
        IN  IF ~b.ok THEN AllocOut(eps, nfo, Err("EndpointMemoryOverflow"))
            ELSE IF index = 0 THEN
                LET setup == allocate_buffer(b.next_free_offset, 8) IN
                IF ~setup.ok
                THEN AllocOut([eps EXCEPT ![index] = ep1], b.next_free_offset,
                              Err("EndpointMemoryOverflow"))
                ELSE AllocOut([eps EXCEPT ![index] = set_setup_buf(ep1, setup.buf)],
                              setup.next_free_offset, Ok(index, ep_dir))
            ELSE AllocOut([eps EXCEPT ![index] = ep1], b.next_free_offset,
                          Ok(index, ep_dir))
    ELSE IF ep_dir = "In" /\ ~is_in_buf_set(ep) THEN
        LET size == max_packet_size
            b == allocate_buffer(nfo, size)
        IN  IF ~b.ok THEN AllocOut(eps, nfo, Err("EndpointMemoryOverflow"))
            ELSE AllocOut([eps EXCEPT ![index] = set_in_buf(ep, b.buf)],
                          b.next_free_offset, Ok(index, ep_dir))
    ELSE AllocOut(eps, nfo, Err("continue"))

\* for index in index..last-1
RECURSIVE alloc_ep_scan(_, _, _, _, _, _, _)
alloc_ep_scan(eps, nfo, index, last, ep_dir, ep_type, max_packet_size) ==
    IF index >= last THEN AllocOut(eps, nfo, Err("exhausted"))
    \* self.endpoints[index] is bounds-checked: out of range, it panics
    ELSE IF index >= NUM_ENDPOINTS THEN AllocOut(eps, nfo, Err("panic"))
    ELSE IF eps[index].ep_type # NoType /\ eps[index].ep_type # ep_type
    THEN alloc_ep_scan(eps, nfo, index + 1, last, ep_dir, ep_type, max_packet_size)
    ELSE
        LET eps1 == IF eps[index].ep_type = NoType
                    THEN [eps EXCEPT ![index] = set_ep_type(eps[index], ep_type)]
                    ELSE eps
            r == alloc_ep_bind(eps1, nfo, index, ep_dir, max_packet_size)
        IN  IF r.res.kind = "continue"
            THEN alloc_ep_scan(eps1, nfo, index + 1, last, ep_dir, ep_type,
                               max_packet_size)
            ELSE r

alloc_ep_from_zero(eps, nfo, ep_dir, ep_addr, ep_type, max_packet_size) ==
    LET first == IF ep_addr # NoAddr THEN ep_addr ELSE 0
        last == IF ep_addr # NoAddr THEN ep_addr + 1 ELSE NUM_ENDPOINTS
        r == alloc_ep_scan(eps, nfo, first, last, ep_dir, ep_type, max_packet_size)
    IN  IF r.res.kind = "exhausted"
        THEN AllocOut(r.endpoints, r.next_free_offset,
                      IF ep_addr # NoAddr THEN Err("InvalidEndpoint")
                      ELSE Err("EndpointOverflow"))
        ELSE r

alloc_ep_retype(eps, nfo, ep_dir, ep_addr, ep_type, max_packet_size) ==
    LET first == IF ep_addr # NoAddr THEN ep_addr ELSE 1
        last == IF ep_addr # NoAddr THEN ep_addr + 1 ELSE NUM_ENDPOINTS
        eps0 == IF ep_addr # NoAddr
                THEN [eps EXCEPT ![ep_addr] = set_ep_type(eps[ep_addr], ep_type)]
                ELSE eps
        r == alloc_ep_scan(eps0, nfo, first, last, ep_dir, ep_type, max_packet_size)
    IN  IF r.res.kind = "exhausted"
        THEN AllocOut(r.endpoints, r.next_free_offset,
                      IF ep_addr # NoAddr THEN Err("InvalidEndpoint")
                      ELSE Err("EndpointOverflow"))
        ELSE r

alloc_ep(eps, nfo, ep_dir, ep_addr, ep_type, max_packet_size) ==
    LET first == IF ep_addr # NoAddr THEN ep_addr ELSE 1
        last == IF ep_addr # NoAddr THEN ep_addr + 1 ELSE NUM_ENDPOINTS
        r == alloc_ep_scan(eps, nfo, first, last, ep_dir, ep_type, max_packet_size)
    IN  IF r.res.kind = "exhausted"
        THEN AllocOut(r.endpoints, r.next_free_offset,
                      IF ep_addr # NoAddr THEN Err("InvalidEndpoint")
                      ELSE Err("EndpointOverflow"))
        ELSE r

\* the registers after the peripheral was reset (UsbHS::new)
DevcmdstatReset ==
    [dev_addr |-> 0, dev_en |-> FALSE, dcon |-> FALSE, setup |-> FALSE,
     dsus |-> FALSE, lpm_sus |-> FALSE, lpm_rewp |-> FALSE,
     dcon_c |-> FALSE, dsus_c |-> FALSE, dres_c |-> FALSE]

\* no set_stalled call is busy-waiting
NoWait == [index |-> -1, dir |-> "None", stalled |-> FALSE]

\* UsbHSBus::new
BusNew ==
    /\ endpoints = EndpointsNew
    /\ max_endpoint = 0
    /\ call = NoCall
    /\ res = Err("None")
    /\ ncalls = 0
    /\ devcmdstat = DevcmdstatReset
    /\ intstat = {}
    /\ ep_in_active = {}
    /\ ep_out_active = {}
    /\ nhw = 0
    /\ hw_since_call = FALSE
    /\ ep_in_stalled = {}
    /\ ep_out_stalled = {}
    /\ armed = {}
    /\ stall_wait = NoWait

\* no operation is running in the main context and interrupts are enabled
CsIdle ==
    /\ primask = "Active"
    /\ saved = <<>>
    /\ script = <<>>
    /\ touched = FALSE
    /\ cs_op = "none"
    /\ ncs = 0
    /\ nisr = 0

IdleBus == BusNew /\ CsIdle

InitAllocator ==
    /\ next_free_offset = AllocatorNew
    /\ alloc_log = <<>>
    /\ IdleBuffer
    /\ IdleBus

Allocate ==
    \E size \in AllocSizes :
        LET r == allocate_buffer(next_free_offset, size) IN
        /\ Len(alloc_log) < MaxAllocs
        /\ next_free_offset' = r.next_free_offset
        /\ alloc_log' = Append(alloc_log, [size |-> size, ok |-> r.ok, buf |-> r.buf])
        /\ UNCHANGED <<csVars, bufVars, busVars, hwVars, epVars>>

NextAllocator == Allocate

SpecAllocator == InitAllocator /\ [][NextAllocator]_vars

(***************************************************************************)
(* One buffer handle over SRAM of any content, read and written with       *)
(* slices of any length up to MaxLen.                                      *)
(***************************************************************************)
Slices == UNION {[1..n -> Bytes] : n \in 0..MaxLen}

InitBuffer ==
    /\ IdleAllocator
    /\ IdleBus
    /\ sram \in [SramCells -> Bytes]
    /\ \E offset \in {0, 1}, size \in 0..MaxCap :
           ep_buf = EndpointBuffer_new(offset, size)
    /\ buf_op = [op |-> "new", arg |-> <<>>, out |-> <<>>]

BufWrite ==
    \E buf \in Slices :
        /\ sram' = EndpointBuffer_write(ep_buf, sram, buf)
        /\ buf_op' = [op |-> "write", arg |-> buf, out |-> buf]
        /\ UNCHANGED <<csVars, ep_buf, allocVars, busVars, hwVars, epVars>>

BufRead ==
    \E buf \in Slices :
        /\ buf_op' = [op |-> "read", arg |-> buf,
                      out |-> EndpointBuffer_read(ep_buf, sram, buf)]
        /\ UNCHANGED <<csVars, sram, ep_buf, allocVars, busVars, hwVars, epVars>>

NextBuffer == BufWrite \/ BufRead

SpecBuffer == InitBuffer /\ [][NextBuffer]_vars

(***************************************************************************)
(* A fresh bus on which only alloc_ep is called.                           *)
(***************************************************************************)
InitAllocEp ==
    /\ next_free_offset = AllocatorNew
    /\ alloc_log = <<>>
    /\ IdleBuffer
    /\ IdleBus

\* the requests alloc_ep is called with: direction, Some(address) or None,
\* type, max_packet_size
Requests(dirs, addrs, types, sizes) ==
    [dir : dirs, addr : addrs, ty : types, mps : sizes]

AllocEpCall(reqs) ==
    \E rq \in reqs :
        LET r == alloc_ep(endpoints, next_free_offset, rq.dir, rq.addr, rq.ty,
                          rq.mps) IN
        /\ endpoints' = r.endpoints
        /\ next_free_offset' = r.next_free_offset
        /\ res' = r.res
        /\ call' = [op |-> "alloc_ep", dir |-> rq.dir, addr |-> rq.addr,
                    ty |-> rq.ty, mps |-> rq.mps]
        /\ ncalls' = ncalls + 1

AllocEpOnly ==
    /\ ncalls < MaxEpAllocs
    /\ AllocEpCall(Requests(Directions, {NoAddr} \cup FixedIndices, EpTypes,
                            PacketSizes))
    /\ UNCHANGED <<csVars, alloc_log, bufVars, hwVars, epVars>>

NextAllocEp == AllocEpOnly

SpecAllocEp == InitAllocEp /\ [][NextAllocEp]_vars

(***************************************************************************)
(* A fresh bus on which alloc_ep is called many times: without an address, *)
(* and among the first calls also with the address of endpoint 2 or 3.     *)
(***************************************************************************)
AllocEpUnaddressed ==
    /\ ncalls < MaxScanAllocs
    /\ AllocEpCall(Requests(Directions, {NoAddr}, EpTypes, {64, 16255}))
    /\ UNCHANGED <<csVars, alloc_log, bufVars, hwVars, epVars>>

AllocEpEarlyFixed ==
    /\ ncalls < MaxEarlyFixed
    /\ AllocEpCall(Requests(Directions, {2, 3}, EpTypes, {64}))
    /\ UNCHANGED <<csVars, alloc_log, bufVars, hwVars, epVars>>

NextAllocScan == AllocEpUnaddressed \/ AllocEpEarlyFixed

SpecAllocScan == InitAllocEp /\ [][NextAllocScan]_vars

(***************************************************************************)
(* The device registers.  INTSTAT holds bit 2i for endpoint i OUT, bit     *)
(* 2i+1 for endpoint i IN and bit 31 (DEV_INT); writing a 1 to a bit       *)
(* clears it.  In DEVCMDSTAT the fields SETUP, DCON_C, DSUS_C and DRES_C   *)
(* are cleared by writing a 1 to them; LPM_SUS takes a 0 only while        *)
(* LPM_REWP is set; LPM_REWP is read-only; a 1 written to DSUS does        *)
(* nothing.                                                                *)
(***************************************************************************)
OutBit(i) == 2 * i
InBit(i) == 2 * i + 1
DEV_INT == 31

\* intstat.write(|w| ..): the bits written as 1 are cleared
IntstatWrite(cur, ones) == cur \ ones

\* a write of the value val to DEVCMDSTAT holding cur
DevcmdstatWrite(cur, val) ==
    [dev_addr |-> val.dev_addr,
     dev_en   |-> val.dev_en,
     dcon     |-> val.dcon,
     setup    |-> cur.setup /\ ~val.setup,
     dsus     |-> cur.dsus /\ val.dsus,
     lpm_sus  |-> IF cur.lpm_rewp THEN cur.lpm_sus /\ val.lpm_sus ELSE cur.lpm_sus,
     lpm_rewp |-> cur.lpm_rewp,
     dcon_c   |-> cur.dcon_c /\ ~val.dcon_c,
     dsus_c   |-> cur.dsus_c /\ ~val.dsus_c,
     dres_c   |-> cur.dres_c /\ ~val.dres_c]

\* the u16 mask with the bits of the endpoints in S set
RECURSIVE MaskOf(_)
MaskOf(S) ==
    IF S = {} THEN 0
    ELSE LET i == CHOOSE x \in S : TRUE IN 2^i + MaskOf(S \ {i})

PollResult(kind, ep_out, ep_in_complete, ep_setup) ==
    [kind |-> kind, index |-> -1, dir |-> "None",
     ep_out |-> ep_out, ep_in_complete |-> ep_in_complete, ep_setup |-> ep_setup]

PollOut(result, d, ist, in_act) ==
    [res |-> result, devcmdstat |-> d, intstat |-> ist, ep_in_active |-> in_act]

(***************************************************************************)
(* UsbHSBus::poll: the result and the registers after the call.            *)
(***************************************************************************)
\* the decoding of the endpoint bits (from `let mut ep_out = 0` on)
poll_decode_ack_out(d, ist, in_act, max_ep) ==
    LET intstat_r == ist
        ep0_out_int == OutBit(0) \in intstat_r
        ep0_in_int == InBit(0) \in intstat_r
        outs == {i \in 1..max_ep : OutBit(i) \in intstat_r}
        ins == {i \in 1..max_ep : InBit(i) \in intstat_r /\ i \notin in_act}
        ep_setup == IF ep0_out_int /\ d.setup THEN 1 ELSE 0
        ep_out == MaskOf(outs \cup (IF ep0_out_int /\ ~d.setup THEN {0} ELSE {}))
        ep_in_complete == MaskOf(ins \cup (IF ep0_in_int THEN {0} ELSE {}))
        acked == (IF ep0_in_int THEN {InBit(0)} ELSE {})
                     \cup {InBit(i) : i \in ins}
                     \cup {OutBit(i) : i \in outs} \cup {DEV_INT}
        in_act1 == IF ep0_in_int THEN in_act \ {0} ELSE in_act
    IN  PollOut(IF ep_out + ep_in_complete + ep_setup # 0
                THEN PollResult("Data", ep_out, ep_in_complete, ep_setup)
                ELSE PollResult("None", 0, 0, 0),
                d, IntstatWrite(ist, acked), in_act1)

poll_decode_shifted(d, ist, in_act, max_ep) ==
    LET intstat_r == ist
        ep0_out_int == OutBit(0) \in intstat_r
        ep0_in_int == InBit(0) \in intstat_r
        outs == {i \in 1..max_ep : OutBit(i) \in intstat_r}
        ins == {i \in 1..max_ep : InBit(i) \in intstat_r /\ i \notin in_act}
        ep_setup == IF ep0_out_int /\ d.setup THEN 1 ELSE 0
        ep_out == MaskOf({i + 1 : i \in outs}
                         \cup (IF ep0_out_int /\ ~d.setup THEN {0} ELSE {}))
        ep_in_complete == MaskOf({i + 1 : i \in ins}
                                 \cup (IF ep0_in_int THEN {0} ELSE {}))
        acked == (IF ep0_in_int THEN {InBit(0)} ELSE {})
                     \cup {InBit(i) : i \in ins} \cup {DEV_INT}
        in_act1 == IF ep0_in_int THEN in_act \ {0} ELSE in_act
    IN  PollOut(IF ep_out + ep_in_complete + ep_setup # 0
                THEN PollResult("Data", ep_out, ep_in_complete, ep_setup)
                ELSE PollResult("None", 0, 0, 0),
                d, IntstatWrite(ist, acked), in_act1)

poll_decode_in_while_active(d, ist, in_act, max_ep) ==
    LET intstat_r == ist
        ep0_out_int == OutBit(0) \in intstat_r
        ep0_in_int == InBit(0) \in intstat_r
        outs == {i \in 1..max_ep : OutBit(i) \in intstat_r}
        ins == {i \in 1..max_ep : InBit(i) \in intstat_r}
        ep_setup == IF ep0_out_int /\ d.setup THEN 1 ELSE 0
        ep_out == MaskOf(outs \cup (IF ep0_out_int /\ ~d.setup THEN {0} ELSE {}))
        ep_in_complete == MaskOf(ins \cup (IF ep0_in_int THEN {0} ELSE {}))
        acked == (IF ep0_in_int THEN {InBit(0)} ELSE {})
                     \cup {InBit(i) : i \in ins} \cup {DEV_INT}
        in_act1 == IF ep0_in_int THEN in_act \ {0} ELSE in_act
    IN  PollOut(IF ep_out + ep_in_complete + ep_setup # 0
                THEN PollResult("Data", ep_out, ep_in_complete, ep_setup)
                ELSE PollResult("None", 0, 0, 0),
                d, IntstatWrite(ist, acked), in_act1)

poll_decode(d, ist, in_act, max_ep) ==
    LET intstat_r == ist
        ep0_out_int == OutBit(0) \in intstat_r
        ep0_in_int == InBit(0) \in intstat_r
        outs == {i \in 1..max_ep : OutBit(i) \in intstat_r}
        ins == {i \in 1..max_ep : InBit(i) \in intstat_r /\ i \notin in_act}
        ep_setup == IF ep0_out_int /\ d.setup THEN 1 ELSE 0
        ep_out == MaskOf(outs \cup (IF ep0_out_int /\ ~d.setup THEN {0} ELSE {}))
        ep_in_complete == MaskOf(ins \cup (IF ep0_in_int THEN {0} ELSE {}))
        acked == (IF ep0_in_int THEN {InBit(0)} ELSE {})
                     \cup {InBit(i) : i \in ins} \cup {DEV_INT}
        in_act1 == IF ep0_in_int THEN in_act \ {0} ELSE in_act
    IN  PollOut(IF ep_out + ep_in_complete + ep_setup # 0
                THEN PollResult("Data", ep_out, ep_in_complete, ep_setup)
                ELSE PollResult("None", 0, 0, 0),
                d, IntstatWrite(ist, acked), in_act1)

poll_suspend_first(d, ist, in_act, max_ep) ==
    IF d.dsus_c \/ d.lpm_sus
    THEN PollOut(PollResult("Suspend", 0, 0, 0), d, ist, in_act)
    ELSE IF d.dres_c
    THEN PollOut(PollResult("Reset", 0, 0, 0),
                 DevcmdstatWrite(d, [d EXCEPT !.dres_c = TRUE]), ist, in_act)
    ELSE poll_decode(d, ist, in_act, max_ep)

poll(d, ist, in_act, max_ep) ==
    IF d.dres_c
    THEN PollOut(PollResult("Reset", 0, 0, 0),
                 DevcmdstatWrite(d, [d EXCEPT !.dres_c = TRUE]), ist, in_act)
    ELSE IF d.dsus_c \/ d.lpm_sus
    THEN PollOut(PollResult("Suspend", 0, 0, 0), d, ist, in_act)
    ELSE poll_decode(d, ist, in_act, max_ep)

(***************************************************************************)
(* UsbHSBus::resume: DEVCMDSTAT after the call.                            *)
(***************************************************************************)
resume_nothing(d) == d

resume(d) ==
    LET d1 == IF d.lpm_rewp
              THEN DevcmdstatWrite(d, [d EXCEPT !.lpm_sus = FALSE])
              ELSE d
    IN  DevcmdstatWrite(d1, [d1 EXCEPT !.dsus = FALSE])

(***************************************************************************)
(* The running bus.  UsbHSBus::new hands the bus to a UsbBusAllocator,     *)
(* which calls alloc_ep only before enable, and enable once.               *)
(***************************************************************************)
\* what the protocol stack of the running bus asks alloc_ep for
BusRequests ==
    { [dir |-> "Out", addr |-> 0, ty |-> "Control", mps |-> 64],
      [dir |-> "In", addr |-> 0, ty |-> "Control", mps |-> 64],
      [dir |-> "Out", addr |-> 2, ty |-> "Bulk", mps |-> 64],
      [dir |-> "In", addr |-> NoAddr, ty |-> "Bulk", mps |-> 64] }

\* the endpoint addresses write is called with
WriteAddrs ==
    { [index |-> 0, dir |-> "In"], [index |-> 1, dir |-> "In"],
      [index |-> 2, dir |-> "Out"] }

BusCall(op) == [op |-> op, dir |-> "None", addr |-> NoAddr, ty |-> NoType, mps |-> 0]

\* the program runs: it has not panicked and is not spinning in set_stalled
Alive == res.kind # "panic" /\ stall_wait = NoWait

AllocEp ==
    /\ ~devcmdstat.dev_en
    /\ ncalls < MaxBusAllocs
    /\ Alive
    /\ AllocEpCall(BusRequests)
    /\ UNCHANGED <<csVars, alloc_log, bufVars, hwVars, epVars>>

\* enable: `max` after the loop over the endpoints
enable_max_lowest(eps) ==
    LET used == {i \in 0..(NUM_ENDPOINTS - 1) :
                     is_out_buf_set(eps[i]) \/ is_in_buf_set(eps[i])}
    IN  IF used = {} THEN 0 ELSE CHOOSE i \in used : \A j \in used : i <= j

enable_max(eps) ==
    LET used == {i \in 0..(NUM_ENDPOINTS - 1) :
                     is_out_buf_set(eps[i]) \/ is_in_buf_set(eps[i])}
    IN  IF used = {} THEN 0 ELSE CHOOSE i \in used : \A j \in used : j <= i

\* enable: the descriptor entries reset_out_buf, reset_setup_buf and
\* reset_in_buf are called for
enable_rearmed(eps) ==
    {<<i, "out_buf">> : i \in {j \in 0..(NUM_ENDPOINTS - 1) : is_out_buf_set(eps[j])}}
        \cup {<<i, "setup_buf">> : i \in {j \in {0} : is_out_buf_set(eps[j])}}
        \cup {<<i, "in_buf">> : i \in {j \in 0..(NUM_ENDPOINTS - 1) : is_in_buf_set(eps[j])}}

\* UsbHSBus::enable
Enable ==
    /\ ~devcmdstat.dev_en
    /\ ncalls < MaxBusCalls
    /\ Alive
    /\ LET used == {i \in 0..(NUM_ENDPOINTS - 1) :
                        is_out_buf_set(endpoints[i]) \/ is_in_buf_set(endpoints[i])}
       IN  /\ max_endpoint' = enable_max(endpoints)
           /\ armed' = armed \cup enable_rearmed(endpoints)
           \* reset_out_buf arms the OUT descriptor, reset_in_buf idles the IN one
           /\ ep_out_active' = ep_out_active
                  \cup {i \in used : is_out_buf_set(endpoints[i])}
           /\ ep_in_active' = ep_in_active \ {i \in used : is_in_buf_set(endpoints[i])}
    /\ devcmdstat' = DevcmdstatWrite(devcmdstat,
                         [devcmdstat EXCEPT !.dev_en = TRUE, !.dcon = TRUE])
    /\ call' = BusCall("enable")
    /\ res' = Err("None")
    /\ ncalls' = ncalls + 1
    /\ hw_since_call' = FALSE
    /\ UNCHANGED <<csVars, endpoints, intstat, nhw, allocVars, bufVars,
                   ep_in_stalled, ep_out_stalled, stall_wait>>

Running == devcmdstat.dev_en /\ ncalls < MaxBusCalls /\ Alive

Poll ==
    /\ Running
    /\ LET r == poll(devcmdstat, intstat, ep_in_active, max_endpoint) IN
       /\ res' = r.res
       /\ devcmdstat' = r.devcmdstat
       /\ intstat' = r.intstat
       /\ ep_in_active' = r.ep_in_active
    /\ call' = BusCall("poll")
    /\ ncalls' = ncalls + 1
    /\ hw_since_call' = FALSE
    /\ UNCHANGED <<csVars, endpoints, max_endpoint, ep_out_active, nhw, allocVars, bufVars,
                   epVars>>

\* UsbHSBus::suspend
Suspend ==
    /\ Running
    /\ call' = BusCall("suspend")
    /\ res' = Err("None")
    /\ ncalls' = ncalls + 1
    /\ hw_since_call' = FALSE
    /\ UNCHANGED <<csVars, endpoints, max_endpoint, devcmdstat, intstat, ep_in_active,
                   ep_out_active, nhw, allocVars, bufVars, epVars>>

Resume ==
    /\ Running
    /\ devcmdstat' = resume(devcmdstat)
    /\ call' = BusCall("resume")
    /\ res' = Err("None")
    /\ ncalls' = ncalls + 1
    /\ hw_since_call' = FALSE
    /\ UNCHANGED <<csVars, endpoints, max_endpoint, intstat, ep_in_active, ep_out_active,
                   nhw, allocVars, bufVars, epVars>>

\* Endpoint::write: the IN descriptor of an endpoint that has an IN buffer
\* and no transfer in flight is armed
Endpoint_write(ep, in_act) ==
    IF ~is_in_buf_set(ep) \/ ep.index \in in_act
    THEN [res |-> Err("WouldBlock"), ep_in_active |-> in_act]
    ELSE [res |-> Ok(ep.index, "In"), ep_in_active |-> in_act \cup {ep.index}]

\* UsbHSBus::write: the result and the IN Active bits after the call
write(eps, in_act, ep_addr) ==
    IF ep_addr.dir # "In"
    THEN [res |-> Err("InvalidEndpoint"), ep_in_active |-> in_act]
    \* self.endpoints[ep_addr.index()] is bounds-checked
    ELSE IF ep_addr.index >= NUM_ENDPOINTS
    THEN [res |-> Err("panic"), ep_in_active |-> in_act]
    ELSE Endpoint_write(eps[ep_addr.index], in_act)

WriteTo(addrs) ==
    /\ Running
    /\ \E ep_addr \in addrs :
        LET r == write(endpoints, ep_in_active, ep_addr) IN
        /\ call' = [BusCall("write") EXCEPT !.dir = ep_addr.dir, !.addr = ep_addr.index]
        /\ res' = r.res
        /\ ep_in_active' = r.ep_in_active
    /\ ncalls' = ncalls + 1
    /\ hw_since_call' = FALSE
    /\ UNCHANGED <<csVars, endpoints, max_endpoint, devcmdstat, intstat, ep_out_active,
                   nhw, allocVars, bufVars, epVars>>

Write == WriteTo(WriteAddrs)

(***************************************************************************)
(* What the USB hardware does on the enabled device.                       *)
(***************************************************************************)
HwStep ==
    /\ devcmdstat.dev_en
    /\ nhw < MaxHwEvents
    /\ nhw' = nhw + 1
    /\ hw_since_call' = TRUE
    /\ UNCHANGED <<csVars, endpoints, max_endpoint, call, res, ncalls, allocVars, bufVars,
                   epVars>>

\* a bus reset is detected
HwBusReset ==
    /\ HwStep
    /\ devcmdstat' = [devcmdstat EXCEPT !.dres_c = TRUE]
    /\ UNCHANGED <<intstat, ep_in_active, ep_out_active>>

\* the bus goes idle: the suspend bit toggles
HwSuspend ==
    /\ HwStep
    /\ devcmdstat' = [devcmdstat EXCEPT !.dsus = TRUE, !.dsus_c = TRUE]
    /\ UNCHANGED <<intstat, ep_in_active, ep_out_active>>

\* the host puts the link in LPM suspend, with or without remote wakeup
HwLpmSuspend ==
    /\ HwStep
    /\ \E rewp \in BOOLEAN :
           devcmdstat' = [devcmdstat EXCEPT !.lpm_sus = TRUE, !.lpm_rewp = rewp]
    /\ UNCHANGED <<intstat, ep_in_active, ep_out_active>>

\* a SETUP packet arrives on endpoint 0
HwSetupPacket ==
    /\ HwStep
    /\ is_out_buf_set(endpoints[0])
    /\ devcmdstat' = [devcmdstat EXCEPT !.setup = TRUE]
    /\ intstat' = intstat \cup {OutBit(0), DEV_INT}
    /\ ep_in_active' = ep_in_active \ {0}
    /\ ep_out_active' = ep_out_active \ {0}

\* an OUT packet is received into an armed OUT buffer
HwOutPacket ==
    /\ HwStep
    /\ \E i \in ep_out_active :
        /\ intstat' = intstat \cup {OutBit(i), DEV_INT}
        /\ ep_out_active' = ep_out_active \ {i}
    /\ UNCHANGED <<devcmdstat, ep_in_active>>

\* an armed IN transfer completes
HwInComplete ==
    /\ HwStep
    /\ \E i \in ep_in_active :
        /\ intstat' = intstat \cup {InBit(i), DEV_INT}
        /\ ep_in_active' = ep_in_active \ {i}
    /\ UNCHANGED <<devcmdstat, ep_out_active>>

\* the IN interrupt of an endpoint fires while its transfer is still active
HwInEarly ==
    /\ HwStep
    /\ \E i \in ep_in_active \ {0} :
        intstat' = intstat \cup {InBit(i), DEV_INT}
    /\ UNCHANGED <<devcmdstat, ep_in_active, ep_out_active>>

Init ==
    /\ next_free_offset = AllocatorNew
    /\ alloc_log = <<>>
    /\ IdleBuffer
    /\ BusNew
    /\ CsIdle

Next ==
    \/ AllocEp \/ Enable \/ Poll \/ Suspend \/ Resume \/ Write
    \/ HwBusReset \/ HwSuspend \/ HwLpmSuspend
    \/ HwSetupPacket \/ HwOutPacket \/ HwInComplete \/ HwInEarly

Spec == Init /\ [][Next]_vars

(***************************************************************************)
(* UsbHSBus::read, with Endpoint::read: the result and the registers       *)
(* after the call.                                                         *)
(***************************************************************************)
ReadOut(result, d, ist, out_act) ==
    [res |-> result, devcmdstat |-> d, intstat |-> ist, ep_out_active |-> out_act]

\* Endpoint::read: with an OUT buffer and a packet pending, the packet is
\* taken, its interrupt (and for endpoint 0 the SETUP flag) is cleared and
\* the OUT descriptor is armed again
Endpoint_read(ep, d, ist, out_act) ==
    IF ~is_out_buf_set(ep) \/ OutBit(ep.index) \notin ist
    THEN ReadOut(Err("WouldBlock"), d, ist, out_act)
    ELSE ReadOut(Ok(ep.index, "Out"),
                 IF ep.index = 0 THEN [d EXCEPT !.setup = FALSE] ELSE d,
                 IntstatWrite(ist, {OutBit(ep.index)}),
                 out_act \cup {ep.index})

read_any_direction(eps, d, ist, out_act, ep_addr) ==
    IF ep_addr.index >= NUM_ENDPOINTS
    THEN ReadOut(Err("panic"), d, ist, out_act)
    ELSE Endpoint_read(eps[ep_addr.index], d, ist, out_act)

read(eps, d, ist, out_act, ep_addr) ==
    IF ep_addr.dir # "Out"
    THEN ReadOut(Err("InvalidEndpoint"), d, ist, out_act)
    \* self.endpoints[ep_addr.index()] is bounds-checked
    ELSE IF ep_addr.index >= NUM_ENDPOINTS
    THEN ReadOut(Err("panic"), d, ist, out_act)
    ELSE Endpoint_read(eps[ep_addr.index], d, ist, out_act)

(***************************************************************************)
(* UsbHSBus::is_stalled and set_stalled, on the Stall and Active bits of   *)
(* the endpoint descriptors.                                               *)
(***************************************************************************)
is_stalled(in_st, out_st, ep_addr) ==
    IF ep_addr.dir = "In" THEN ep_addr.index \in in_st ELSE ep_addr.index \in out_st

\* ep.ep_in[0].read().a().is_active() / ep.ep_out[0].read().a().is_active()
is_active(in_act, out_act, ep_addr) ==
    IF ep_addr.dir = "In" THEN ep_addr.index \in in_act ELSE ep_addr.index \in out_act

\* set_stalled: the call finds the `while .. is_active() {}` loop spinning
set_stalled_spins_never(in_act, out_act, ep_addr) == FALSE

set_stalled_spins(in_act, out_act, ep_addr) ==
    ep_addr.index > 0 /\ is_active(in_act, out_act, ep_addr)

\* set_stalled: the final match, the Stall bits after it
StallBits(in_st, out_st) == [ep_in_stalled |-> in_st, ep_out_stalled |-> out_st]

set_stall_bit_both(in_st, out_st, ep_addr, stalled) ==
    IF stalled
    THEN StallBits(in_st \cup {ep_addr.index}, out_st \cup {ep_addr.index})
    ELSE StallBits(in_st \ {ep_addr.index}, out_st \ {ep_addr.index})

set_stall_bit(in_st, out_st, ep_addr, stalled) ==
    IF stalled /\ ep_addr.dir = "In"
    THEN StallBits(in_st \cup {ep_addr.index}, out_st)
    ELSE IF stalled
    THEN StallBits(in_st, out_st \cup {ep_addr.index})
    ELSE IF ep_addr.dir = "In"
    THEN StallBits(in_st \ {ep_addr.index}, out_st)
    ELSE StallBits(in_st, out_st \ {ep_addr.index})

BoolResult(b) == Result(IF b THEN "true" ELSE "false", -1, "None")

(***************************************************************************)
(* A bus on which every operation is called, with endpoint addresses in    *)
(* and out of range, while OUT packets arrive and IN transfers complete.   *)
(***************************************************************************)
\* what alloc_ep is asked for: index 6 is out of range
OpsRequests ==
    { [dir |-> "Out", addr |-> 0, ty |-> "Control", mps |-> 64],
      [dir |-> "In", addr |-> 0, ty |-> "Control", mps |-> 64],
      [dir |-> "Out", addr |-> 2, ty |-> "Bulk", mps |-> 64],
      [dir |-> "In", addr |-> 2, ty |-> "Bulk", mps |-> 64],
      [dir |-> "Out", addr |-> NUM_ENDPOINTS, ty |-> "Bulk", mps |-> 64] }

\* the endpoint addresses read and write are called with
IoAddrs ==
    { [index |-> 0, dir |-> "Out"], [index |-> 0, dir |-> "In"],
      [index |-> 2, dir |-> "Out"], [index |-> 2, dir |-> "In"],
      [index |-> NUM_ENDPOINTS, dir |-> "Out"],
      [index |-> NUM_ENDPOINTS, dir |-> "In"] }

\* the endpoint addresses set_stalled and is_stalled are called with
StallAddrs ==
    { [index |-> 0, dir |-> "In"], [index |-> 2, dir |-> "In"],
      [index |-> 2, dir |-> "Out"] }

OpsRunning == Running /\ ncalls < MaxOpsCalls

OpsAllocEp ==
    /\ ~devcmdstat.dev_en
    /\ ncalls < MaxOpsAllocs
    /\ Alive
    /\ AllocEpCall(OpsRequests)
    /\ UNCHANGED <<csVars, alloc_log, bufVars, hwVars, epVars>>

OpsEnable == ncalls < MaxOpsCalls /\ Enable

OpsPoll == OpsRunning /\ Poll

OpsResume == OpsRunning /\ Resume

OpsWrite == OpsRunning /\ WriteTo(IoAddrs)

Read ==
    /\ OpsRunning
    /\ \E ep_addr \in IoAddrs :
        LET r == read(endpoints, devcmdstat, intstat, ep_out_active, ep_addr) IN
        /\ call' = [BusCall("read") EXCEPT !.dir = ep_addr.dir, !.addr = ep_addr.index]
        /\ res' = r.res
        /\ devcmdstat' = r.devcmdstat
        /\ intstat' = r.intstat
        /\ ep_out_active' = r.ep_out_active
    /\ ncalls' = ncalls + 1
    /\ hw_since_call' = FALSE
    /\ UNCHANGED <<csVars, endpoints, max_endpoint, ep_in_active, nhw, allocVars, bufVars,
                   epVars>>

\* the endpoints reset skips when it leaves out the control endpoint
reset_configured_noncontrol == 1..(NUM_ENDPOINTS - 1)

\* the endpoints reset calls configure on: self.endpoints.iter()
reset_configured == 0..(NUM_ENDPOINTS - 1)

\* Endpoint::configure on the endpoints idxs: the descriptor entries of
\* their bound directions are programmed anew (OUT armed, IN idle, no stall)
Endpoint_configure(eps, idxs, out_act, in_act, out_st, in_st) ==
    LET outs == {i \in idxs : is_out_buf_set(eps[i])}
        ins == {i \in idxs : is_in_buf_set(eps[i])}
    IN  [ep_out_active |-> out_act \cup outs,
         ep_in_active |-> in_act \ ins,
         ep_out_stalled |-> out_st \ outs,
         ep_in_stalled |-> in_st \ ins]

\* UsbHSBus::reset, with Endpoint::configure on every endpoint: the
\* descriptors of the bound buffers are programmed as by reset_*_buf, with
\* the Stall bit clear; it can be called before enable as well
Reset ==
    /\ ncalls < MaxOpsCalls
    /\ ncalls < MaxBusCalls
    /\ Alive
    /\ devcmdstat' = DevcmdstatWrite(devcmdstat, [devcmdstat EXCEPT !.dev_addr = 0])
    /\ LET c == Endpoint_configure(endpoints, reset_configured, ep_out_active,
                                   ep_in_active, ep_out_stalled, ep_in_stalled)
       IN  /\ ep_out_active' = c.ep_out_active
           /\ ep_in_active' = c.ep_in_active
           /\ ep_out_stalled' = c.ep_out_stalled
           /\ ep_in_stalled' = c.ep_in_stalled
           /\ armed' = armed \cup enable_rearmed(endpoints)
    /\ intstat' = IntstatWrite(intstat, 0..DEV_INT)
    /\ call' = BusCall("reset")
    /\ res' = Err("None")
    /\ ncalls' = ncalls + 1
    /\ hw_since_call' = FALSE
    /\ UNCHANGED <<csVars, endpoints, max_endpoint, nhw, stall_wait, allocVars, bufVars>>

\* the addresses set_device_address is called with
DevAddrs == {5}

\* UsbHSBus::set_device_address
SetDeviceAddress ==
    /\ OpsRunning
    /\ \E addr \in DevAddrs :
        /\ devcmdstat' = DevcmdstatWrite(devcmdstat,
                                         [devcmdstat EXCEPT !.dev_addr = addr])
        /\ call' = [BusCall("set_device_address") EXCEPT !.addr = addr]
    /\ res' = Err("None")
    /\ ncalls' = ncalls + 1
    /\ hw_since_call' = FALSE
    /\ UNCHANGED <<csVars, endpoints, max_endpoint, intstat, ep_in_active,
                   ep_out_active, nhw, allocVars, bufVars, epVars>>

\* UsbHSBus::is_stalled
IsStalled ==
    /\ OpsRunning
    /\ \E ep_addr \in StallAddrs :
        /\ call' = [BusCall("is_stalled") EXCEPT !.dir = ep_addr.dir,
                                                 !.addr = ep_addr.index]
        /\ res' = BoolResult(is_stalled(ep_in_stalled, ep_out_stalled, ep_addr))
    /\ ncalls' = ncalls + 1
    /\ hw_since_call' = FALSE
    /\ UNCHANGED <<csVars, endpoints, max_endpoint, devcmdstat, intstat, ep_in_active,
                   ep_out_active, nhw, allocVars, bufVars, epVars>>

\* UsbHSBus::set_stalled is called: it returns at once when the endpoint is
\* in the requested state, starts spinning when the transfer of a
\* non-control endpoint is active, and otherwise writes the Stall bit
SetStalled ==
    /\ OpsRunning
    /\ \E ep_addr \in StallAddrs, stalled \in BOOLEAN :
        /\ call' = [BusCall("set_stalled") EXCEPT !.dir = ep_addr.dir,
                                                  !.addr = ep_addr.index,
                                                  !.ty = IF stalled THEN "true"
                                                         ELSE "false"]
        /\ IF is_stalled(ep_in_stalled, ep_out_stalled, ep_addr) = stalled
           THEN /\ res' = Err("None")
                /\ UNCHANGED <<ep_in_stalled, ep_out_stalled, stall_wait>>
           ELSE IF set_stalled_spins(ep_in_active, ep_out_active, ep_addr)
           THEN /\ res' = Err("spinning")
                /\ stall_wait' = [index |-> ep_addr.index, dir |-> ep_addr.dir,
                                  stalled |-> stalled]
                /\ UNCHANGED <<ep_in_stalled, ep_out_stalled>>
           ELSE LET b == set_stall_bit(ep_in_stalled, ep_out_stalled, ep_addr,
                                       stalled) IN
                /\ res' = Err("None")
                /\ ep_in_stalled' = b.ep_in_stalled
                /\ ep_out_stalled' = b.ep_out_stalled
                /\ UNCHANGED stall_wait
    /\ ncalls' = ncalls + 1
    /\ hw_since_call' = FALSE
    /\ UNCHANGED <<csVars, endpoints, max_endpoint, devcmdstat, intstat, ep_in_active,
                   ep_out_active, nhw, armed, allocVars, bufVars>>

\* the spinning set_stalled sees the Active bit clear, writes the Stall bit
\* and returns
SetStalledReturns ==
    /\ stall_wait # NoWait
    /\ ~set_stalled_spins(ep_in_active, ep_out_active, stall_wait)
    /\ LET b == set_stall_bit(ep_in_stalled, ep_out_stalled, stall_wait,
                              stall_wait.stalled) IN
       /\ ep_in_stalled' = b.ep_in_stalled
       /\ ep_out_stalled' = b.ep_out_stalled
    /\ stall_wait' = NoWait
    /\ res' = Err("None")
    /\ UNCHANGED <<csVars, endpoints, call, ncalls, hwVars, armed, allocVars, bufVars>>

OpsHwOutPacket == nhw < MaxOpsHw /\ HwOutPacket

OpsHwInComplete == nhw < MaxOpsHw /\ HwInComplete

\* the transfer a spinning set_stalled waits for ends
HwWaitedTransferEnds ==
    /\ stall_wait # NoWait
    /\ is_active(ep_in_active, ep_out_active, stall_wait)
    /\ IF stall_wait.dir = "In"
       THEN /\ intstat' = intstat \cup {InBit(stall_wait.index), DEV_INT}
            /\ ep_in_active' = ep_in_active \ {stall_wait.index}
            /\ UNCHANGED ep_out_active
       ELSE /\ intstat' = intstat \cup {OutBit(stall_wait.index), DEV_INT}
            /\ ep_out_active' = ep_out_active \ {stall_wait.index}
            /\ UNCHANGED ep_in_active
    /\ hw_since_call' = TRUE
    /\ UNCHANGED <<csVars, endpoints, call, res, ncalls, max_endpoint, devcmdstat, nhw,
                   allocVars, bufVars, epVars>>

NextOps ==
    \/ OpsAllocEp \/ OpsEnable \/ OpsPoll \/ OpsResume \/ Reset \/ SetDeviceAddress
    \/ Read \/ OpsWrite \/ IsStalled \/ SetStalled \/ SetStalledReturns
    \/ OpsHwOutPacket \/ OpsHwInComplete \/ HwWaitedTransferEnds

SpecOps == Init /\ [][NextOps]_vars

\* the hardware ends every transfer in the end, and set_stalled goes on
\* running
SpecOpsFair ==
    SpecOps /\ WF_vars(HwWaitedTransferEnds) /\ WF_vars(SetStalledReturns)

(***************************************************************************)
(* Properties of the allocator (SpecAllocator).                            *)
(***************************************************************************)
\* n rounded up to a multiple of 64
RoundUp64(n) == ((n + 63) \div 64) * 64

\* the regions [a.offset, a.offset+a.size) and [b.offset, b.offset+b.size)
\* have no cell in common
Disjoint(a, b) ==
    \/ a.size = 0
    \/ b.size = 0
    \/ a.offset + a.size <= b.offset
    \/ b.offset + b.size <= a.offset

\* the bump pointer before call k: the end of the last region returned
\* before it, the header size if there is none
RECURSIVE BumpBefore(_)
BumpBefore(k) ==
    IF k = 1 THEN EP_REGISTERS_SIZE
    ELSE IF alloc_log[k - 1].ok
         THEN alloc_log[k - 1].buf.offset + alloc_log[k - 1].buf.size
         ELSE BumpBefore(k - 1)

\* C1: every region allocate_buffer returns starts at a multiple of 64, is
\* disjoint from every region returned earlier, lies after the reserved
\* header [0, EP_REGISTERS_SIZE) and ends at or before EP_MEM_SIZE.
C1_RegionsSafe ==
    \A k \in 1..Len(alloc_log) :
        alloc_log[k].ok =>
            LET b == alloc_log[k].buf IN
            /\ b.offset % 64 = 0
            /\ b.offset >= EP_REGISTERS_SIZE
            /\ b.offset + b.size <= EP_MEM_SIZE
            /\ \A j \in 1..(k - 1) :
                   alloc_log[j].ok => Disjoint(alloc_log[j].buf, b)

\* three non-empty regions were returned, the last after a failed call
C1_Witness ==
    /\ Len(alloc_log) = 4
    /\ alloc_log[1].ok /\ alloc_log[2].ok /\ ~alloc_log[3].ok /\ alloc_log[4].ok
    /\ \A k \in {1, 2, 4} : alloc_log[k].size > 0

\* C2: allocate_buffer(size) fails exactly when the bump pointer rounded up
\* to 64 plus size exceeds EP_MEM_SIZE; a failed call leaves
\* next_free_offset unchanged; and a request that fits made right after a
\* failed call succeeds at the offset it would have had without that call.
C2_FailsExactlyOnOverflow ==
    /\ [][ Len(alloc_log') = Len(alloc_log) + 1 =>
             LET e == alloc_log'[Len(alloc_log')] IN
             /\ (~e.ok) <=> (RoundUp64(next_free_offset) + e.size > EP_MEM_SIZE)
             /\ (~e.ok) => next_free_offset' = next_free_offset
             /\ (~e.ok) => e.buf = NoBuf ]_vars
    /\ [](\A k \in 1..(Len(alloc_log) - 1) :
             ( /\ ~alloc_log[k].ok
               /\ RoundUp64(BumpBefore(k)) + alloc_log[k + 1].size <= EP_MEM_SIZE )
             => /\ alloc_log[k + 1].ok
                /\ alloc_log[k + 1].buf.offset = RoundUp64(BumpBefore(k)))

\* a call failed with the bump pointer off a 64-byte boundary, and the next
\* call succeeded
C2_Witness ==
    \E k \in 1..(Len(alloc_log) - 1) :
        /\ ~alloc_log[k].ok
        /\ BumpBefore(k) % 64 # 0
        /\ BumpBefore(k) > EP_REGISTERS_SIZE
        /\ alloc_log[k + 1].ok
        /\ alloc_log[k + 1].size > 0

\* C3: sizes 8, 16, 8 from a fresh allocator with header size
\* H = EP_REGISTERS_SIZE are all granted, at H, H+64 and H+128 each rounded
\* up to a multiple of 64; in general every returned offset is the previous
\* returned offset+size (H for the first) rounded up to a multiple of 64.
C3_Offsets ==
    /\ \A k \in 1..Len(alloc_log) :
           alloc_log[k].ok =>
               alloc_log[k].buf.offset = RoundUp64(BumpBefore(k))
    /\ ( /\ Len(alloc_log) >= 3
         /\ alloc_log[1].size = 8 /\ alloc_log[2].size = 16 /\ alloc_log[3].size = 8 )
       => /\ \A k \in 1..3 : alloc_log[k].ok
          /\ alloc_log[1].buf.offset = RoundUp64(EP_REGISTERS_SIZE)
          /\ alloc_log[2].buf.offset = RoundUp64(EP_REGISTERS_SIZE + 64)
          /\ alloc_log[3].buf.offset = RoundUp64(EP_REGISTERS_SIZE + 128)

\* the sizes 8, 16, 8 were asked of a fresh allocator and granted
C3_Witness ==
    /\ Len(alloc_log) = 3
    /\ alloc_log[1].size = 8 /\ alloc_log[2].size = 16 /\ alloc_log[3].size = 8
    /\ alloc_log[3].ok
    /\ alloc_log[3].buf.offset = 256

(***************************************************************************)
(* Properties of the buffer handle (SpecBuffer).                           *)
(***************************************************************************)
\* the cells of SRAM the handle b views
CellsOf(b) == {a \in SramCells : a >= b.offset /\ a < b.offset + b.size}

\* C4: with C the capacity of the handle: a read into a slice of length
\* n <= C right after a write of a slice of the same length returns the
\* bytes written; a write stores the first min(n, C) bytes of its slice at
\* the start of the handle and changes no other cell, inside or outside the
\* handle; a read copies the first min(n, C) cells of the handle and leaves
\* the rest of the destination as it was.
C4_WriteReadRoundTrip ==
    [][ /\ ( /\ buf_op.op = "write" /\ buf_op'.op = "read"
             /\ Len(buf_op'.arg) = Len(buf_op.arg)
             /\ Len(buf_op.arg) <= ep_buf.size )
           => buf_op'.out = buf_op.arg
        /\ buf_op'.op = "write" =>
             /\ \A a \in SramCells \ CellsOf(ep_buf) : sram'[a] = sram[a]
             /\ \A a \in CellsOf(ep_buf) :
                    sram'[a] = IF a - ep_buf.offset < Len(buf_op'.arg)
                               THEN buf_op'.arg[(a - ep_buf.offset) + 1]
                               ELSE sram[a]
        /\ buf_op'.op = "read" =>
             /\ Len(buf_op'.out) = Len(buf_op'.arg)
             /\ \A i \in 1..Len(buf_op'.arg) :
                    buf_op'.out[i] = IF i <= ep_buf.size
                                     THEN sram[ep_buf.offset + (i - 1)]
                                     ELSE buf_op'.arg[i]
      ]_vars

\* a read into a destination longer than the capacity changed the first
\* bytes of the destination and kept the last one, with a cell of another
\* value right past the handle
C4_Witness ==
    /\ buf_op.op = "read"
    /\ ep_buf.size = MaxCap
    /\ Len(buf_op.arg) = MaxCap + 1
    /\ \A i \in 1..MaxCap : buf_op.out[i] # buf_op.arg[i]
    /\ buf_op.out[MaxCap + 1] = buf_op.arg[MaxCap + 1]
    /\ sram[ep_buf.offset + MaxCap] # buf_op.arg[MaxCap + 1]

(***************************************************************************)
(* Properties of alloc_ep (SpecAllocEp, SpecAllocScan).                    *)
(***************************************************************************)
\* this step is a call of alloc_ep
AllocEpStep == ncalls' = ncalls + 1 /\ call'.op = "alloc_ep"

\* the buffer endpoint ep has bound for direction dir
DirBuf(ep, dir) == IF dir = "Out" THEN ep.out_buf ELSE ep.in_buf

\* endpoint i can take a request for direction dir and type ty
Candidate(eps, i, dir, ty) ==
    /\ eps[i].ep_type \in {NoType, ty}
    /\ ~DirBuf(eps[i], dir).bound

MinOf(S) == CHOOSE x \in S : \A y \in S : x <= y

\* C8: alloc_ep with the fixed address of an endpoint whose type is set to
\* another type, or whose buffer for the requested direction is bound,
\* returns InvalidEndpoint and changes no endpoint and not the allocator.
C8_FixedAddressUnavailable ==
    [][ (AllocEpStep /\ call'.addr # NoAddr) =>
          LET ep == endpoints[call'.addr] IN
          ( \/ (ep.ep_type # NoType /\ ep.ep_type # call'.ty)
            \/ DirBuf(ep, call'.dir).bound )
          => /\ res'.kind = "InvalidEndpoint"
             /\ endpoints' = endpoints
             /\ next_free_offset' = next_free_offset
      ]_vars

\* a fixed address was refused: the endpoint has another type, and a buffer
C8_Witness ==
    /\ call.op = "alloc_ep" /\ call.addr # NoAddr
    /\ res.kind = "InvalidEndpoint"
    /\ endpoints[call.addr].ep_type \notin {NoType, call.ty}
    /\ endpoints[call.addr].in_buf.bound

\* C9 as stated: alloc_ep without a fixed address returns the lowest index
\* in 1..NUM_ENDPOINTS-1 whose type is unset or the requested one and whose
\* buffer for the requested direction is unbound; it returns
\* EndpointOverflow exactly when there is no such index, and then changes
\* no state; it never returns index 0.
C9_LowestCandidateAlways ==
    [][ (AllocEpStep /\ call'.addr = NoAddr) =>
          LET cands == {i \in 1..(NUM_ENDPOINTS - 1) :
                            Candidate(endpoints, i, call'.dir, call'.ty)} IN
          /\ cands # {} => res' = Ok(MinOf(cands), call'.dir)
          /\ (cands = {}) <=> (res'.kind = "EndpointOverflow")
          /\ res'.kind = "EndpointOverflow" =>
                 endpoints' = endpoints /\ next_free_offset' = next_free_offset
          /\ res'.index # 0
      ]_vars

\* C9 (amended): as above when the buffer of max_packet_size bytes fits in
\* the endpoint memory; when it does not fit, the call returns
\* EndpointMemoryOverflow, having changed nothing but the type of that
\* lowest index, now the requested type.  Endpoint 0 is never touched.
C9_LowestCandidateIfFits ==
    [][ (AllocEpStep /\ call'.addr = NoAddr) =>
          LET cands == {i \in 1..(NUM_ENDPOINTS - 1) :
                            Candidate(endpoints, i, call'.dir, call'.ty)}
              fits == RoundUp64(next_free_offset) + call'.mps <= EP_MEM_SIZE
          IN
          /\ (cands # {} /\ fits) =>
                 /\ res' = Ok(MinOf(cands), call'.dir)
                 /\ DirBuf(endpoints'[MinOf(cands)], call'.dir).bound
                 /\ endpoints'[MinOf(cands)].ep_type = call'.ty
                 /\ \A j \in 0..(NUM_ENDPOINTS - 1) \ {MinOf(cands)} :
                        endpoints'[j] = endpoints[j]
          /\ (cands # {} /\ ~fits) =>
                 /\ res'.kind = "EndpointMemoryOverflow"
                 /\ next_free_offset' = next_free_offset
                 /\ endpoints' = [endpoints EXCEPT ![MinOf(cands)].ep_type = call'.ty]
          /\ (cands = {}) <=> (res'.kind = "EndpointOverflow")
          /\ res'.kind = "EndpointOverflow" =>
                 endpoints' = endpoints /\ next_free_offset' = next_free_offset
          /\ res'.index # 0
          /\ endpoints'[0] = endpoints[0]
      ]_vars

\* an unaddressed request was refused with EndpointOverflow: every
\* non-control endpoint has a type, one of them another type than asked
\* for, one the type asked for
C9_Witness ==
    /\ call.op = "alloc_ep" /\ call.addr = NoAddr
    /\ res.kind = "EndpointOverflow"
    /\ \A i \in 1..(NUM_ENDPOINTS - 1) : endpoints[i].ep_type # NoType
    /\ \E i \in 1..(NUM_ENDPOINTS - 1) : endpoints[i].ep_type # call.ty
    /\ \E i \in 1..(NUM_ENDPOINTS - 1) : endpoints[i].ep_type = call.ty

\* the buffers of endpoint 0's OUT buffer of m1+1 bytes, its SETUP buffer
\* and its IN buffer of m2 bytes fit in a fresh endpoint memory
ControlFits(m1, m2) ==
    RoundUp64(RoundUp64(RoundUp64(EP_REGISTERS_SIZE) + m1 + 1) + 8) + m2
        <= EP_MEM_SIZE

\* C10: on a fresh bus, alloc_ep(OUT) and then alloc_ep(IN) for endpoint 0,
\* with the same type and max packet sizes m1, m2 whose buffers fit in the
\* endpoint memory (as all sizes up to the high-speed limit of 1024 do),
\* both succeed and leave endpoint 0 with an OUT buffer of m1+1 bytes, a
\* SETUP buffer of 8 bytes and an IN buffer of m2 bytes.  A call that binds
\* the OUT buffer of another endpoint gives it exactly max_packet_size
\* bytes, and no endpoint but 0 ever has a SETUP buffer.
C10_ControlEndpointBuffers ==
    /\ [][ /\ ( /\ AllocEpStep /\ ncalls = 0
                /\ call'.addr = 0 /\ call'.dir = "Out"
                /\ ControlFits(call'.mps, 0) )
              => /\ res' = Ok(0, "Out")
                 /\ endpoints'[0].out_buf.bound
                 /\ endpoints'[0].out_buf.size = call'.mps + 1
                 /\ endpoints'[0].setup_buf.bound
                 /\ endpoints'[0].setup_buf.size = 8
                 /\ ~endpoints'[0].in_buf.bound
           /\ ( /\ AllocEpStep /\ ncalls = 1
                /\ call.op = "alloc_ep" /\ call.addr = 0 /\ call.dir = "Out"
                /\ call'.addr = 0 /\ call'.dir = "In" /\ call'.ty = call.ty
                /\ ControlFits(call.mps, call'.mps) )
              => /\ res' = Ok(0, "In")
                 /\ endpoints'[0].out_buf.bound
                 /\ endpoints'[0].out_buf.size = call.mps + 1
                 /\ endpoints'[0].setup_buf.bound
                 /\ endpoints'[0].setup_buf.size = 8
                 /\ endpoints'[0].in_buf.bound
                 /\ endpoints'[0].in_buf.size = call'.mps
           /\ ( /\ AllocEpStep /\ res'.kind = "Ok" /\ res'.dir = "Out"
                /\ res'.index # 0 )
              => /\ endpoints'[res'.index].out_buf.bound
                 /\ endpoints'[res'.index].out_buf.size = call'.mps
         ]_vars
    /\ [](\A i \in 1..(NUM_ENDPOINTS - 1) : ~endpoints[i].setup_buf.bound)

\* OUT and then IN were allocated for endpoint 0 on a fresh bus
C10_Witness ==
    /\ ncalls = 2
    /\ call.op = "alloc_ep" /\ call.addr = 0 /\ call.dir = "In"
    /\ res = Ok(0, "In")
    /\ endpoints[0].out_buf.bound /\ endpoints[0].out_buf.size = 65
    /\ endpoints[0].setup_buf.bound
    /\ endpoints[0].in_buf.bound /\ endpoints[0].in_buf.size = 8

\* the bound buffers of all endpoints, each with the slot that holds it
BoundSlots(eps) ==
    {[index |-> i, slot |-> sl, buf |-> eps[i][sl]] :
        i \in 0..(NUM_ENDPOINTS - 1), sl \in {"out_buf", "in_buf", "setup_buf"}}

\* a buffer slot that is bound stays as it is
KeepsBinding(b, b1) == b.bound => b1 = b

\* C11: in every alloc_ep call, successful or failing, an endpoint's type
\* that is set stays what it is, and an OUT, IN or SETUP buffer that is
\* bound stays the same buffer; and the bound buffers of all endpoints are
\* pairwise disjoint regions at all times.
C11_OneShotBindings ==
    /\ [][ AllocEpStep =>
             \A i \in 0..(NUM_ENDPOINTS - 1) :
                /\ endpoints[i].ep_type # NoType =>
                       endpoints'[i].ep_type = endpoints[i].ep_type
                /\ KeepsBinding(endpoints[i].out_buf, endpoints'[i].out_buf)
                /\ KeepsBinding(endpoints[i].in_buf, endpoints'[i].in_buf)
                /\ KeepsBinding(endpoints[i].setup_buf, endpoints'[i].setup_buf)
         ]_vars
    /\ [](\A a, b \in {x \in BoundSlots(endpoints) : x.buf.bound} :
              (a.index # b.index \/ a.slot # b.slot) =>
                  Disjoint(a.buf, b.buf))

\* a second request for endpoint 0's OUT direction, with another type, was
\* refused; the OUT and SETUP buffers of the first are bound
C11_Witness ==
    /\ ncalls = 2
    /\ call.op = "alloc_ep" /\ call.addr = 0 /\ call.dir = "Out"
    /\ res.kind = "InvalidEndpoint"
    /\ endpoints[0].ep_type \notin {NoType, call.ty}
    /\ endpoints[0].out_buf.bound /\ endpoints[0].setup_buf.bound

\* the endpoint a failing allocation of this alloc_ep call is made for
AllocTarget ==
    IF call'.addr # NoAddr THEN call'.addr
    ELSE MinOf({i \in 1..(NUM_ENDPOINTS - 1) :
                    Candidate(endpoints, i, call'.dir, call'.ty)})

\* C20: an alloc_ep call that fails with EndpointMemoryOverflow leaves the
\* endpoint it was allocating for with the requested type, changes no other
\* endpoint, and binds no buffer for the allocation that failed.  When it is
\* endpoint 0's OUT buffer that fits and the SETUP buffer that does not,
\* endpoint 0 has the OUT buffer bound, of max_packet_size + 1 bytes, and no
\* SETUP buffer, and the allocator keeps the OUT buffer's space; in every
\* other case no buffer is bound by the call and the allocator is unchanged.
C20_PartialControlAllocation ==
    [][ (AllocEpStep /\ res'.kind = "EndpointMemoryOverflow") =>
          LET t == AllocTarget
              out_fits == RoundUp64(next_free_offset) + call'.mps + 1 <= EP_MEM_SIZE
          IN
          /\ endpoints[t].ep_type \in {NoType, call'.ty}
          /\ endpoints'[t].ep_type = call'.ty
          /\ \A j \in 0..(NUM_ENDPOINTS - 1) \ {t} : endpoints'[j] = endpoints[j]
          /\ endpoints'[t].in_buf = endpoints[t].in_buf
          /\ endpoints'[t].setup_buf = endpoints[t].setup_buf
          /\ IF t = 0 /\ call'.dir = "Out" /\ out_fits
             THEN /\ ~endpoints[0].out_buf.bound
                  /\ ~endpoints'[0].setup_buf.bound
                  /\ endpoints'[0].out_buf =
                         EndpointBuffer_new(RoundUp64(next_free_offset), call'.mps + 1)
                  /\ next_free_offset' = RoundUp64(next_free_offset) + call'.mps + 1
                  /\ RoundUp64(next_free_offset') + 8 > EP_MEM_SIZE
             ELSE /\ endpoints'[t].out_buf = endpoints[t].out_buf
                  /\ next_free_offset' = next_free_offset
      ]_vars

\* alloc_ep(OUT) for endpoint 0 failed on the SETUP buffer: the type is
\* claimed, the OUT buffer is bound and there is no SETUP buffer
C20_Witness ==
    /\ call.op = "alloc_ep" /\ call.addr = 0 /\ call.dir = "Out"
    /\ res.kind = "EndpointMemoryOverflow"
    /\ endpoints[0].ep_type = call.ty
    /\ endpoints[0].out_buf.bound /\ endpoints[0].out_buf.size = call.mps + 1
    /\ ~endpoints[0].setup_buf.bound


(***************************************************************************)
(* Properties of poll and resume on the running bus (Spec).                *)
(***************************************************************************)
\* this step is a call of poll
PollStep == ncalls' = ncalls + 1 /\ call'.op = "poll"

\* C5 as stated: a poll right after a poll that returned
\* Data{ep_out: bit 2, ep_in_complete: bit 0, ep_setup: 0}, with no hardware
\* event and no other call in between, returns None.
C5_SecondPollNone ==
    [][ (call.op = "poll" /\ res = PollResult("Data", 4, 1, 0) /\ ~hw_since_call
           /\ PollStep)
        => res'.kind = "None" ]_vars

\* C5 (amended): that second poll returns Data{ep_out: bit 2,
\* ep_in_complete: 0, ep_setup: 0}.  In general a poll right after a poll
\* that returned Data reports no IN completion again, and reports again
\* every OUT and SETUP event of the first, which poll does not acknowledge.
C5_SecondPollRepeatsOut ==
    [][ (call.op = "poll" /\ res.kind = "Data" /\ ~hw_since_call /\ PollStep) =>
          /\ res = PollResult("Data", 4, 1, 0) => res' = PollResult("Data", 4, 0, 0)
          /\ res'.ep_in_complete = 0
          /\ res'.ep_out = res.ep_out
          /\ res'.ep_setup = res.ep_setup
          /\ res'.kind = IF res.ep_out + res.ep_setup # 0 THEN "Data" ELSE "None"
      ]_vars

\* poll has just returned Data{ep_out: bit 2, ep_in_complete: bit 0,
\* ep_setup: 0}, and another call can follow
C5_Witness ==
    /\ call.op = "poll"
    /\ res = PollResult("Data", 4, 1, 0)
    /\ OutBit(2) \in intstat
    /\ InBit(0) \notin intstat
    /\ ~hw_since_call
    /\ ncalls < MaxBusCalls

\* C6: a poll with the reset flag (DRES_C) set returns Reset, whatever the
\* suspend flags, clears the reset flag and leaves INTSTAT and the endpoint
\* descriptors alone; a poll returns Suspend only with the reset flag clear,
\* and then decodes and acknowledges nothing either; it returns Data or None
\* only with the reset flag and both suspend flags clear.
C6_ResetBeforeSuspend ==
    [][ PollStep =>
          /\ devcmdstat.dres_c =>
                 /\ res' = PollResult("Reset", 0, 0, 0)
                 /\ ~devcmdstat'.dres_c
                 /\ intstat' = intstat
                 /\ ep_in_active' = ep_in_active
          /\ res'.kind = "Reset" => devcmdstat.dres_c
          /\ res'.kind = "Suspend" =>
                 /\ ~devcmdstat.dres_c
                 /\ devcmdstat.dsus_c \/ devcmdstat.lpm_sus
                 /\ res' = PollResult("Suspend", 0, 0, 0)
                 /\ intstat' = intstat
                 /\ ep_in_active' = ep_in_active
          /\ res'.kind \in {"Data", "None"} =>
                 /\ ~devcmdstat.dres_c
                 /\ ~devcmdstat.dsus_c
                 /\ ~devcmdstat.lpm_sus
      ]_vars

\* poll has just returned Reset on a bus that is also in LPM suspend, with
\* an endpoint interrupt pending, which is still pending
C6_Witness ==
    /\ call.op = "poll"
    /\ res.kind = "Reset"
    /\ ~hw_since_call
    /\ devcmdstat.lpm_sus
    /\ intstat # {}

\* this step is a poll made while a suspend flag is set and the reset flag
\* is clear
SuspendedPoll ==
    /\ PollStep
    /\ ~devcmdstat.dres_c
    /\ devcmdstat.dsus_c \/ devcmdstat.lpm_sus

\* C7 as stated: a poll with a suspend flag (DSUS_C or LPM_SUS) set and the
\* reset flag clear returns Suspend and leaves the flags as they are; and a
\* poll right after resume() does not return Suspend.
C7_NoSuspendAfterResume ==
    [][ /\ SuspendedPoll =>
             res'.kind = "Suspend" /\ devcmdstat' = devcmdstat
        /\ (call.op = "resume" /\ ~hw_since_call /\ PollStep) => res'.kind # "Suspend"
      ]_vars

\* C7 (amended): the first part as stated; resume() clears DSUS_C, and
\* clears LPM_SUS only if remote wakeup is pending (LPM_REWP); so a poll
\* right after resume() returns Suspend exactly when the reset flag is
\* clear and LPM_SUS is set with LPM_REWP clear.
C7_SuspendUntilResume ==
    [][ /\ SuspendedPoll =>
             res'.kind = "Suspend" /\ devcmdstat' = devcmdstat
        /\ (ncalls' = ncalls + 1 /\ call'.op = "resume") =>
             /\ ~devcmdstat'.dsus_c
             /\ ~devcmdstat'.dsus
             /\ devcmdstat'.lpm_sus = (devcmdstat.lpm_sus /\ ~devcmdstat.lpm_rewp)
        /\ (call.op = "resume" /\ ~hw_since_call /\ PollStep) =>
             ( res'.kind = "Suspend" <=>
                 ( /\ ~devcmdstat.dres_c
                   /\ devcmdstat.lpm_sus /\ ~devcmdstat.lpm_rewp ) )
      ]_vars

\* resume() has just been called on a bus that was in LPM suspend with
\* remote wakeup pending, and no suspend flag is left
C7_Witness ==
    /\ call.op = "resume"
    /\ devcmdstat.lpm_rewp
    /\ ~devcmdstat.lpm_sus /\ ~devcmdstat.dsus_c /\ ~devcmdstat.dres_c
    /\ ~hw_since_call
    /\ ncalls < MaxBusCalls

\* bit k of the mask m is set
BitOf(m, k) == (m \div 2^k) % 2 = 1

\* endpoint k has a buffer bound
Allocated(k) == endpoints[k].out_buf.bound \/ endpoints[k].in_buf.bound

DecodingPoll ==
    /\ PollStep
    /\ ~devcmdstat.dres_c /\ ~devcmdstat.dsus_c /\ ~devcmdstat.lpm_sus

\* C18: a poll that decodes the endpoint bits puts a non-control endpoint k
\* in in_complete_mask exactly when INTSTAT has its IN bit set and its IN
\* descriptor is not Active, and then clears that bit; if the bit is set
\* with the descriptor still Active, endpoint k is not reported and the bit
\* stays set, so that a poll made once the descriptor is no longer Active
\* reports it.  poll never changes the Active bit of a non-control endpoint.
C18_InCompleteOnlyWhenInactive ==
    [][ DecodingPoll =>
          \A k \in 1..(NUM_ENDPOINTS - 1) :
             LET done == InBit(k) \in intstat /\ k \notin ep_in_active IN
             /\ BitOf(res'.ep_in_complete, k) <=> done
             /\ done => InBit(k) \notin intstat'
             /\ ~done => (InBit(k) \in intstat' <=> InBit(k) \in intstat)
             /\ (k \in ep_in_active') <=> (k \in ep_in_active)
      ]_vars

\* poll has just returned None although endpoint 1's IN bit is set: its
\* descriptor is still Active, and the bit is still pending
C18_Witness ==
    /\ call.op = "poll" /\ ~hw_since_call
    /\ res.kind = "None"
    /\ InBit(1) \in intstat
    /\ 1 \in ep_in_active

(***************************************************************************)
(* Properties of the bus on which every operation is called (SpecOps).     *)
(***************************************************************************)
\* this step is a call of the operation op
CallStep(op) == ncalls' = ncalls + 1 /\ call'.op = op

\* the endpoint address the call of this step is made with
CallAddr == [index |-> call'.addr, dir |-> call'.dir]

\* C12 as stated: alloc_ep with a fixed address, read and write, called
\* with an endpoint address whose index is NUM_ENDPOINTS or more, return
\* InvalidEndpoint and change no endpoint, register or descriptor.
C12_OutOfRangeIsInvalidEndpoint ==
    [][ ( /\ (CallStep("alloc_ep") \/ CallStep("read") \/ CallStep("write"))
          /\ call'.addr >= NUM_ENDPOINTS )
        => /\ res'.kind = "InvalidEndpoint"
           /\ UNCHANGED <<endpoints, next_free_offset, max_endpoint, devcmdstat,
                          intstat, ep_in_active, ep_out_active, epVars>>
      ]_vars

\* C13: read with an IN address and write with an OUT address return
\* InvalidEndpoint and change no endpoint, register or descriptor.  With
\* the matching direction and an index in range the call is that of the
\* addressed endpoint: it returns that endpoint's address or WouldBlock,
\* and changes nothing but that endpoint's interrupt bit and Active bit of
\* the direction (and, for endpoint 0's read, the SETUP flag).
C13_DirectionChecked ==
    [][ /\ ( \/ (CallStep("read") /\ call'.dir # "Out")
             \/ (CallStep("write") /\ call'.dir # "In") )
           => /\ res' = Err("InvalidEndpoint")
              /\ UNCHANGED <<endpoints, next_free_offset, max_endpoint, devcmdstat,
                             intstat, ep_in_active, ep_out_active, epVars>>
        /\ ( CallStep("read") /\ call'.dir = "Out" /\ call'.addr < NUM_ENDPOINTS )
           => LET i == call'.addr
                  pending == is_out_buf_set(endpoints[i]) /\ OutBit(i) \in intstat
              IN  /\ res' = IF pending THEN Ok(i, "Out") ELSE Err("WouldBlock")
                  /\ intstat' = IF pending THEN intstat \ {OutBit(i)} ELSE intstat
                  /\ ep_out_active' = IF pending THEN ep_out_active \cup {i}
                                      ELSE ep_out_active
                  /\ devcmdstat' = IF pending /\ i = 0
                                   THEN [devcmdstat EXCEPT !.setup = FALSE]
                                   ELSE devcmdstat
                  /\ UNCHANGED <<endpoints, next_free_offset, max_endpoint,
                                 ep_in_active, epVars>>
        /\ ( CallStep("write") /\ call'.dir = "In" /\ call'.addr < NUM_ENDPOINTS )
           => LET i == call'.addr
                  free == is_in_buf_set(endpoints[i]) /\ i \notin ep_in_active
              IN  /\ res' = IF free THEN Ok(i, "In") ELSE Err("WouldBlock")
                  /\ ep_in_active' = IF free THEN ep_in_active \cup {i}
                                     ELSE ep_in_active
                  /\ UNCHANGED <<endpoints, next_free_offset, max_endpoint,
                                 devcmdstat, intstat, ep_out_active, epVars>>
      ]_vars

\* read was called with the IN address of endpoint 2 while an OUT packet of
\* endpoint 2 is pending: InvalidEndpoint, and the packet is still pending
C13_Witness ==
    /\ call.op = "read" /\ call.addr = 2 /\ call.dir = "In"
    /\ res = Err("InvalidEndpoint")
    /\ is_out_buf_set(endpoints[2])
    /\ OutBit(2) \in intstat
    /\ 2 \notin ep_out_active

\* this step is a return of set_stalled: at once, or after spinning
SetStalledReturn ==
    \/ (CallStep("set_stalled") /\ stall_wait' = NoWait)
    \/ (stall_wait # NoWait /\ stall_wait' = NoWait)

\* the Stall bits but the one of the address a
OtherStallBits(in_st, out_st, a) ==
    IF a.dir = "In" THEN <<in_st \ {a.index}, out_st>>
    ELSE <<in_st, out_st \ {a.index}>>

\* C14: when set_stalled(addr, s) returns, the Stall bit of addr is s and
\* every other Stall bit is as before; is_stalled(addr) returns the Stall
\* bit of addr and changes nothing; a set_stalled(addr, s) called right
\* after a set_stalled(addr, s) that returned changes nothing.
C14_StallSetAndRead ==
    [][ /\ SetStalledReturn =>
             /\ is_stalled(ep_in_stalled', ep_out_stalled', CallAddr)
                    = (call'.ty = "true")
             /\ OtherStallBits(ep_in_stalled', ep_out_stalled', CallAddr)
                    = OtherStallBits(ep_in_stalled, ep_out_stalled, CallAddr)
        /\ CallStep("is_stalled") =>
             /\ res' = BoolResult(is_stalled(ep_in_stalled, ep_out_stalled, CallAddr))
             /\ UNCHANGED <<endpoints, next_free_offset, max_endpoint, devcmdstat,
                            intstat, ep_in_active, ep_out_active, epVars>>
        /\ ( /\ call.op = "set_stalled" /\ stall_wait = NoWait
             /\ CallStep("set_stalled")
             /\ call'.addr = call.addr /\ call'.dir = call.dir /\ call'.ty = call.ty )
           => UNCHANGED <<endpoints, next_free_offset, max_endpoint, devcmdstat,
                          intstat, ep_in_active, ep_out_active, epVars>>
      ]_vars

\* is_stalled has just returned true for the IN direction of endpoint 2,
\* whose OUT direction is not stalled, after set_stalled calls
C14_Witness ==
    /\ call.op = "is_stalled" /\ call.addr = 2 /\ call.dir = "In"
    /\ res = BoolResult(TRUE)
    /\ 2 \in ep_in_stalled /\ 2 \notin ep_out_stalled
    /\ 0 \in ep_in_stalled

\* the highest endpoint index with an OUT or IN buffer bound, 0 if none
HighestAllocated ==
    LET used == {i \in 0..(NUM_ENDPOINTS - 1) : Allocated(i)} IN
    IF used = {} THEN 0 ELSE CHOOSE i \in used : \A j \in used : j <= i

\* C16: enable sets max_endpoint to the highest endpoint index with an OUT
\* or IN buffer bound (0 if none) and re-arms the descriptor of every bound
\* OUT and IN buffer, and endpoint 0's SETUP descriptor when its OUT buffer
\* is bound; no step but enable changes max_endpoint.
C16_EnableSetsMaxEndpoint ==
    [][ /\ CallStep("enable") =>
             /\ max_endpoint' = HighestAllocated
             /\ \A i \in 0..(NUM_ENDPOINTS - 1) :
                   /\ endpoints[i].out_buf.bound =>
                         <<i, "out_buf">> \in armed' /\ i \in ep_out_active'
                   /\ endpoints[i].in_buf.bound =>
                         <<i, "in_buf">> \in armed' /\ i \notin ep_in_active'
             /\ endpoints[0].out_buf.bound => <<0, "setup_buf">> \in armed'
             /\ \A e \in armed' : endpoints[e[1]].out_buf.bound
                                     \/ endpoints[e[1]].in_buf.bound
        /\ ~CallStep("enable") => max_endpoint' = max_endpoint
      ]_vars

\* enable has just run on a bus with endpoints 0 (OUT) and 2 allocated
C16_Witness ==
    /\ call.op = "enable"
    /\ max_endpoint = 2
    /\ endpoints[0].out_buf.bound /\ Allocated(2)
    /\ <<0, "setup_buf">> \in armed

\* the Active bit of the address a is set
ActiveBit(a) == IF a.dir = "In" THEN a.index \in ep_in_active
                ELSE a.index \in ep_out_active

\* C19: a set_stalled call starts spinning exactly when the endpoint is not
\* endpoint 0, is not in the requested state, and its Active bit of the
\* addressed direction is set; the Stall bit of a non-control endpoint is
\* written by set_stalled only in a state where that Active bit is clear;
\* and a spinning set_stalled returns, given that the hardware ends the
\* transfer.
C19_StallWaitsForInactive ==
    /\ [][ /\ CallStep("set_stalled") =>
                ( stall_wait' # NoWait <=>
                    ( /\ call'.addr > 0
                      /\ is_stalled(ep_in_stalled, ep_out_stalled, CallAddr)
                             # (call'.ty = "true")
                      /\ ActiveBit(CallAddr) ) )
           /\ ( /\ call'.op = "set_stalled"
                /\ <<ep_in_stalled', ep_out_stalled'>> # <<ep_in_stalled, ep_out_stalled>>
                /\ call'.addr > 0 )
              => ~ActiveBit(CallAddr)
           /\ stall_wait' # NoWait =>
                 <<ep_in_stalled', ep_out_stalled'>> = <<ep_in_stalled, ep_out_stalled>>
         ]_vars
    /\ (stall_wait # NoWait) ~> (stall_wait = NoWait)

\* set_stalled(true) for the IN direction of endpoint 2 has returned after
\* spinning: the transfer ended in the meantime and the Stall bit is set
C19_Witness ==
    /\ call.op = "set_stalled" /\ call.addr = 2 /\ call.dir = "In"
    /\ res.kind = "None"
    /\ stall_wait = NoWait
    /\ hw_since_call
    /\ InBit(2) \in intstat
    /\ 2 \in ep_in_stalled

\* the poll of this step follows a reset directly, with no hardware event
\* in between, and finds no reset or suspend flag
PollAfterReset ==
    /\ call.op = "reset"
    /\ ~hw_since_call
    /\ PollStep
    /\ ~devcmdstat.dres_c
    /\ ~devcmdstat.dsus_c
    /\ ~devcmdstat.lpm_sus

\* C21: reset leaves the device address 0, the descriptor entries of every
\* bound direction of every endpoint programmed anew (OUT armed, IN idle,
\* no stall) and no interrupt-status flag pending, and changes no endpoint,
\* not the allocator and not max_endpoint; a poll right after it, with no
\* hardware event in between and no reset or suspend flag, returns None.
C21_ResetReprograms ==
    /\ [][ CallStep("reset")
           => /\ devcmdstat'.dev_addr = 0
              /\ intstat' = {}
              /\ \A i \in 0..(NUM_ENDPOINTS - 1) :
                    /\ is_out_buf_set(endpoints[i])
                          => i \in ep_out_active' /\ i \notin ep_out_stalled'
                    /\ is_in_buf_set(endpoints[i])
                          => i \notin ep_in_active' /\ i \notin ep_in_stalled'
              /\ UNCHANGED <<endpoints, next_free_offset, max_endpoint>> ]_vars
    /\ [][ PollAfterReset => res'.kind = "None" ]_vars

\* reset has just returned on a bus with the control endpoint and endpoint
\* 2 allocated, and a poll now would find no reset or suspend flag
C21_Witness ==
    /\ call.op = "reset"
    /\ ~hw_since_call
    /\ is_in_buf_set(endpoints[0])
    /\ max_endpoint = 2
    /\ devcmdstat.dev_addr = 0
    /\ intstat = {}
    /\ ~devcmdstat.dres_c /\ ~devcmdstat.dsus_c /\ ~devcmdstat.lpm_sus

(***************************************************************************)
(* Critical sections.  An operation called in the main context is run one  *)
(* step at a time: "free" is the entry of cortex_m::interrupt::free, "end" *)
(* the return of its closure, any other step an access to the named        *)
(* register or to the endpoint-descriptor table.  Which branch a call      *)
(* takes depends on register values; here every branch can be taken.       *)
(* The interrupt handler calls poll; it preempts the main context only     *)
(* while PRIMASK is active and runs to its end before the main context     *)
(* goes on.                                                                *)
(***************************************************************************)
MaxCsCalls == 2
MaxIsrPolls == 2
MaxSpins == 2

\* interrupt::free: read primask, disable, run the closure, enable again
\* only if primask was active
free_enter(pm, sv) == [primask |-> "Inactive", saved |-> <<pm>> \o sv]

free_exit(pm, sv) ==
    [primask |-> IF Head(sv) = "Active" THEN "Active" ELSE pm,
     saved |-> Tail(sv)]

Rep(step, n) == [k \in 1..n |-> step]

Free(body) == <<"free">> \o body \o <<"end">>

\* resets: the number of reset_out_buf, reset_setup_buf, reset_in_buf calls
enable_steps(resets) ==
    Free(Rep("eps", resets)
         \o <<"databufstart", "epliststart", "phy_ctrl_clr", "devcmdstat",
              "inten", "inten">>)

reset_steps == Free(<<"devcmdstat">> \o Rep("eps", NUM_ENDPOINTS) \o <<"intstat">>)

set_device_address_steps == Free(<<"devcmdstat">>)

PollPaths ==
    [kind : {"Reset", "SuspendDsus", "SuspendLpm"}, ep0out : {FALSE},
     ep0in : {FALSE}, nonctl : {0}, in_done : {FALSE}]
    \cup [kind : {"Decode"}, ep0out : BOOLEAN, ep0in : BOOLEAN,
          nonctl : 0..1, in_done : BOOLEAN]

poll_steps(path) ==
    Free(CASE path.kind = "Reset" -> <<"devcmdstat", "devcmdstat">>
           [] path.kind = "SuspendDsus" -> <<"devcmdstat", "devcmdstat">>
           [] path.kind = "SuspendLpm" ->
                <<"devcmdstat", "devcmdstat", "devcmdstat">>
           [] OTHER ->
                <<"devcmdstat", "devcmdstat", "devcmdstat", "intstat">>
                \o (IF path.ep0out THEN <<"devcmdstat">> ELSE <<>>)
                \o (IF path.ep0in THEN <<"intstat", "eps">> ELSE <<>>)
                \o (IF path.nonctl = 0 THEN <<>>
                    ELSE <<"eps", "eps">>
                         \o (IF path.in_done THEN <<"intstat">> ELSE <<>>))
                \o <<"intstat">>)

\* accesses: the register accesses Endpoint::read makes
read_steps(dir, accesses) ==
    IF dir # "Out" THEN <<>> ELSE Free(Rep("eps", accesses))

write_steps(dir, accesses) ==
    IF dir # "In" THEN <<>> ELSE Free(Rep("eps", accesses))

is_stalled_steps == Free(<<"eps">>)

StallPaths == [same : BOOLEAN, index : {0, 2}, spins : 0..MaxSpins]

\* what set_stalled does after is_stalled returned
set_stalled_rest(path) ==
    IF path.same THEN <<>>
    ELSE (IF path.index > 0 THEN Rep("eps", path.spins + 1) ELSE <<>>)
         \o <<"eps">>

set_stalled_steps_unnested(path) == is_stalled_steps \o Free(set_stalled_rest(path))

set_stalled_steps(path) == Free(is_stalled_steps \o set_stalled_rest(path))

resume_steps(lpm_rewp) ==
    Free(<<"devcmdstat">>
         \o (IF lpm_rewp THEN <<"devcmdstat">> ELSE <<>>)
         \o <<"devcmdstat">>)

suspend_steps == <<>>

CsPrograms ==
    {[op |-> "enable", steps |-> enable_steps(n)] : n \in 0..2}
    \cup {[op |-> "reset", steps |-> reset_steps],
          [op |-> "set_device_address", steps |-> set_device_address_steps],
          [op |-> "is_stalled", steps |-> is_stalled_steps],
          [op |-> "suspend", steps |-> suspend_steps]}
    \cup {[op |-> "poll", steps |-> poll_steps(p)] : p \in PollPaths}
    \cup {[op |-> "read", steps |-> read_steps(d, n)] :
             d \in {"In", "Out"}, n \in 1..2}
    \cup {[op |-> "write", steps |-> write_steps(d, n)] :
             d \in {"In", "Out"}, n \in 1..2}
    \cup {[op |-> "set_stalled", steps |-> set_stalled_steps(p)] :
             p \in StallPaths}
    \cup {[op |-> "resume", steps |-> resume_steps(b)] : b \in BOOLEAN}

IsAccess(step) == step \notin {"free", "end"}

AccessesLeft(steps) == \E k \in 1..Len(steps) : IsAccess(steps[k])

\* the main context calls an operation once the one before has returned
CsCall ==
    \E prog \in CsPrograms :
        /\ script = <<>>
        /\ ncs < MaxCsCalls
        /\ cs_op' = prog.op
        /\ script' = prog.steps
        /\ touched' = FALSE
        /\ ncs' = ncs + 1
        /\ UNCHANGED <<primask, saved, nisr, allocVars, bufVars, busVars,
                       hwVars, epVars>>

CsFree ==
    /\ script # <<>>
    /\ Head(script) = "free"
    /\ LET f == free_enter(primask, saved) IN
           /\ primask' = f.primask
           /\ saved' = f.saved
    /\ script' = Tail(script)
    /\ UNCHANGED <<touched, cs_op, ncs, nisr, allocVars, bufVars, busVars,
                   hwVars, epVars>>

CsEnd ==
    /\ script # <<>>
    /\ Head(script) = "end"
    /\ LET f == free_exit(primask, saved) IN
           /\ primask' = f.primask
           /\ saved' = f.saved
    /\ script' = Tail(script)
    /\ UNCHANGED <<touched, cs_op, ncs, nisr, allocVars, bufVars, busVars,
                   hwVars, epVars>>

CsAccess ==
    /\ script # <<>>
    /\ IsAccess(Head(script))
    /\ touched' = TRUE
    /\ script' = Tail(script)
    /\ UNCHANGED <<primask, saved, cs_op, ncs, nisr, allocVars, bufVars,
                   busVars, hwVars, epVars>>

\* the USB interrupt is taken and its handler calls poll: poll's own
\* interrupt::free finds primask active and leaves it active
IsrPoll ==
    /\ primask = "Active"
    /\ nisr < MaxIsrPolls
    /\ nisr' = nisr + 1
    /\ UNCHANGED <<primask, saved, script, touched, cs_op, ncs, allocVars,
                   bufVars, busVars, hwVars, epVars>>

NextCritical == CsCall \/ CsFree \/ CsAccess \/ CsEnd \/ IsrPoll

SpecCritical == Init /\ [][NextCritical]_vars

\* the running operation has made an access and has another one to make
BetweenAccesses == touched /\ AccessesLeft(script)

\* C15: every operation makes each of its accesses with interrupts masked,
\* the mask is held from its first access to its last (also across
\* set_stalled's nested is_stalled) and is released when the operation has
\* returned, on every path; so no interrupt-context poll runs between two
\* accesses of a main-context operation.
C15_OneCriticalSection ==
    /\ [](script # <<>> /\ IsAccess(Head(script)) => primask = "Inactive")
    /\ [](BetweenAccesses => primask = "Inactive" /\ saved # <<>>)
    /\ [](script = <<>> => primask = "Active" /\ saved = <<>>)
    /\ [][nisr' # nisr => ~BetweenAccesses]_vars

\* set_stalled is back from its nested is_stalled, with its write of the
\* Stall bit still to come, and the interrupt handler has polled before
C15_Witness ==
    /\ cs_op = "set_stalled"
    /\ BetweenAccesses
    /\ Len(saved) = 1
    /\ nisr > 0
    /\ primask = "Inactive"

====
